---- MODULE Spec2Model ----
(***************************************************************************)
(* A model of the hops orchestrator: the NATS client (publish with the     *)
(* per-subject fence, ConsumeSequences, FetchMessageBundle), the sequence  *)
(* runner (SequenceCallback, dispatchCalls, dispatchCall) and the worker   *)
(* loop (Worker.Run, runHandler).                                          *)
(*                                                                         *)
(* Strings are sequences of atoms: every separator character that the code *)
(* searches for or joins with ("." in subjects, "_" in task types, "-" in  *)
(* slugs) is an atom of its own, so joining, cutting and splitting are     *)
(* computed, not assumed.                                                  *)
(***************************************************************************)
EXTENDS Integers, Sequences, FiniteSets, TLC

\* ------------------------------------------------------------------ bounds

\* Messages the external producers (event sources, workers' results) publish.
MaxProduced == 2
\* Redeliveries of nak'd messages by the notify consumer, all messages together.
MaxRedeliver == 1
\* Requests the runner side publishes for the worker.
MaxRequests == 2
\* Redeliveries of requests by the worker consumer, all requests together.
MaxWRedeliver == 1
\* Steps of the worker's clock: it starts at the first and stops at the last.
MaxSteps == 3
\* Replay clients asked for.
MaxReplays == 2
\* Messages the stream stops retaining.
MaxPurged == 1

\* ----------------------------------------------------------------- strings

Dot == "."
Underscore == "_"
Dash == "-"

Range(s) == {s[i] : i \in 1..Len(s)}

\* strings.Contains(s, sep) for a one-character sep
Contains(s, sep) == \E i \in 1..Len(s) : s[i] = sep

\* index of the first atom equal to sep, 0 when there is none
FirstIndex(s, sep) ==
    IF Contains(s, sep)
    THEN CHOOSE i \in 1..Len(s) : s[i] = sep /\ \A j \in 1..(i - 1) : s[j] # sep
    ELSE 0

\* strings.Cut(s, sep): the text before the first sep, the text after it, found
Cut(s, sep) ==
    LET i == FirstIndex(s, sep) IN
    IF i = 0
    THEN [before |-> s, after |-> <<>>, found |-> FALSE]
    ELSE [before |-> SubSeq(s, 1, i - 1),
          after |-> SubSeq(s, i + 1, Len(s)),
          found |-> TRUE]

RECURSIVE Join(_, _)
\* strings.Join(parts, sep)
Join(parts, sep) ==
    IF Len(parts) = 0 THEN <<>>
    ELSE IF Len(parts) = 1 THEN parts[1]
    ELSE parts[1] \o <<sep>> \o Join(Tail(parts), sep)

RECURSIVE Split(_, _)
\* strings.Split(s, sep): the text before the first sep, then the parts of the
\* text after it (the cut is bound once, as a value)
Split(s, sep) ==
    CHOOSE parts \in {IF c.found THEN <<c.before>> \o Split(c.after, sep)
                                  ELSE <<c.before>> : c \in {Cut(s, sep)}} : TRUE

\* --------------------------------------------------------------- constants

AccountId == <<"acct">>
ChannelNotify == <<"notify">>
ChannelRequest == <<"request">>
EventMsgId == <<"event">>

\* payloads of notify messages; a source event's payload carries its event type
EventPayloads == {<<"push">>, <<"pr">>}
ResultPayloads == {<<"done">>}

\* ------------------------------------------------------------------ errors

\* An error is a record of what its Error() text holds: the JetStream API
\* error code (0 for an error that is no API error) and its description.
NoError == [err_code |-> -1, description |-> "nil"]
\* nats: API error: code=400 err_code=10077 description=maximum messages per subject exceeded
FenceError == [err_code |-> 10077, description |-> "maximum messages per subject exceeded"]
StreamError == [err_code |-> 10059, description |-> "stream not found"]
TimeoutError == [err_code |-> 0, description |-> "context deadline exceeded"]
\* the errors a publish can fail with besides the fence
BrokerErrors == {StreamError}
\* the errors creating or reading the ordered consumer can fail with
FetchErrors == {TimeoutError}

\* strings.Contains(err.Error(), "maximum messages per subject exceeded")
HasFenceText(err) == err.description = "maximum messages per subject exceeded"
\* strings.Contains(err.Error(), "err_code=10077")
HasFenceCode(err) == err.err_code = 10077


\* ---------------------------------------------------------------- subjects

\* Client.Publish: a single argument that holds a "." is a full subject
IsFullSubject(subjTokens) ==
    Len(subjTokens) = 1 /\ Contains(subjTokens[1], Dot)

\* Client.Publish joining the tokens without the account in front
PublishSubjectNoAccount(subjTokens) ==
    IF ~IsFullSubject(subjTokens)
    THEN Join(subjTokens, Dot)
    ELSE subjTokens[1]

\* Client.Publish putting the account in front of whatever it is given
PublishSubjectAlwaysJoin(subjTokens) == Join(<<AccountId>> \o subjTokens, Dot)

\* Client.Publish: the subject the message is published to
PublishSubject(subjTokens) ==
    IF ~IsFullSubject(subjTokens)
    THEN Join(<<AccountId>> \o subjTokens, Dot)
    ELSE subjTokens[1]

\* The parsed metadata of a message, or ok = FALSE (InvalidMessage).
Parse(subject, streamSeq) ==
    LET t == Split(subject, Dot)
        valid == /\ Len(t) >= 4
                 /\ t[1] = AccountId
                 /\ t[2] \in {ChannelNotify, ChannelRequest}
                 /\ (t[2] = ChannelRequest => Len(t) >= 6)
    IN  [ok |-> valid,
         Channel |-> IF valid THEN t[2] ELSE <<>>,
         SequenceId |-> IF valid THEN t[3] ELSE <<>>,
         MessageId |-> IF valid THEN t[4] ELSE <<>>,
         AppName |-> IF valid /\ Len(t) >= 6 THEN t[5] ELSE <<>>,
         HandlerName |-> IF valid /\ Len(t) >= 6 THEN t[6] ELSE <<>>,
         StreamSequence |-> streamSeq]

\* MsgMeta.SequenceFilter: {account}.notify.{sequence_id}.*
SequenceFilter(meta) ==
    Join(<<AccountId, ChannelNotify, meta.SequenceId, <<"*">>>>, Dot)

\* the filter of the durable consumer {account}-notify
NotifyFilter == Join(<<AccountId, ChannelNotify, <<">">>>>, Dot)

RECURSIVE TokensMatch(_, _)
\* the broker's subject matching: "*" is one token, ">" is one or more tokens
TokensMatch(f, t) ==
    IF Len(f) = 0 THEN Len(t) = 0
    ELSE IF Len(t) = 0 THEN FALSE
    ELSE IF f[1] = <<">">> THEN Len(f) = 1
    ELSE (f[1] = <<"*">> \/ f[1] = t[1]) /\ TokensMatch(Tail(f), Tail(t))

Matches(filter, subject) == TokensMatch(Split(filter, Dot), Split(subject, Dot))

\* ------------------------------------------------------------------- state

VARIABLES
    stream,      \* the account's stream: the persisted messages, by stream sequence
    produced,    \* messages the external producers have published so far
    lastPub,     \* the Publish call of the latest step: its arguments and what it returned
    ncons,       \* the notify consumer's state of every message of the stream
    rpc,         \* where the runner's consume callback is
    cur,         \* stream sequence of the message the callback is handling (0: none)
    fcursor,     \* FetchMessageBundle: stream sequence the ordered consumer is at
    bundle,      \* FetchMessageBundle: msgBundle
    cbSeqId,     \* SequenceCallback: its sequenceId argument
    cbBundle,    \* SequenceCallback: its msgBundle argument
    ons,         \* SequenceCallback: hop.Ons
    onIdx,       \* SequenceCallback: index of the On block being dispatched
    tasks,       \* dispatchCalls: the state of each call's goroutine
    errorchan,   \* dispatchCalls: the values sent on errorchan
    sensorErrors,\* SequenceCallback: the errors aggregated so far
    attempted,   \* the dispatchCall goroutines this callback has run
    last,        \* the SequenceCallback the latest step ended: what it returned
    hops,        \* Runner.hops: the rule body the runner was made with
    wcons,       \* the worker consumer's state of every message of the stream
    wpc,         \* where the worker's consume callback is
    wcur,        \* stream sequence of the request the worker callback holds (0: none)
    result,      \* Worker.Run: the callback's result
    hstate,      \* runHandler: where the goroutine running the handler is
    herr,        \* runHandler: what the handler returned
    firstErr,    \* runHandler: what the immediate msg.InProgress() returned
    tickReady,   \* runHandler: a tick waits on ticker.C
    tickAt,      \* runHandler: when the ticker fires next
    now,         \* the worker's clock
    leaked,      \* handler goroutines that outlived their runHandler
    orphans,     \* requests whose handler still runs after its runHandler returned
    ackDeadline, \* when the request's ack-wait runs out at the broker (0: nothing in flight)
    wlast,       \* the worker callback the latest step ended: what it did
    cstate,      \* Client.Consume: where it is
    replay,      \* NewReplayClient: the call under way and the clients made so far
    received,    \* what a callback registered with Consume was handed, in order
    purged       \* stream sequences of the messages the stream no longer retains

brokerVars == <<stream, produced, lastPub, ncons>>
fetchVars == <<fcursor, bundle>>
runVars == <<cbSeqId, cbBundle, ons, onIdx, tasks, errorchan, sensorErrors, attempted>>
runnerVars == <<rpc, cur, fetchVars, runVars, last, hops>>

workerVars == <<wcons, wpc, wcur, result, hstate, herr, firstErr, tickReady, tickAt, now,
                leaked, orphans, ackDeadline, wlast, cstate>>

vars == <<brokerVars, runnerVars, workerVars, replay, received, purged>>

\* a map with no entries (an empty MessageBundle)
EmptyMap == [k \in {} |-> <<>>]

\* m[k] = v, overwriting an earlier entry
MapPut(m, k, v) == [x \in (DOMAIN m) \cup {k} |-> IF x = k THEN v ELSE m[x]]

\* ------------------------------------------------------------------ broker

\* the retained messages of stream contents s that sit on the subject
OnSubject(s, subject) == {i \in 1..Len(s) \ purged : s[i].subject = subject}

\* The stream's limit of messages per subject; the broker rejects a publish
\* that would exceed it (discard new) with error 10077.
MaxMsgsPerSubject == 1

\* What JetStream.Publish can answer for a subject: it accepts, rejects with the
\* fence error when the subject is full, or fails with another error.
JsPublishOutcomes(subject) ==
    (IF Cardinality(OnSubject(stream, subject)) >= MaxMsgsPerSubject
     THEN {FenceError} ELSE {NoError}) \cup BrokerErrors

\* a message nobody has received yet, as the notify consumer sees it
Fresh(subject) ==
    [st |-> IF Matches(NotifyFilter, subject) THEN "wait" ELSE "skip", hist |-> <<>>]

\* ----------------------------------------------------------------- Publish

\* lastPub when the latest step made no Publish call
NoPublish ==
    [called |-> FALSE, toks |-> <<>>, subject |-> <<>>, data |-> <<>>, held |-> {},
     broker |-> NoError, err |-> NoError, sent |-> FALSE]

\* last when the latest step did not end a SequenceCallback
NoCallback == [n |-> 0, ret |-> <<>>, attempts |-> {}]

\* Client.Publish: (err, sent) for the broker's answer brokerErr. The first
\* variant hands every error of the broker back; the second one swallows the
\* fence error and leaves sent as it was.
PublishReturnRaw(brokerErr) == [err |-> brokerErr, sent |-> TRUE]

PublishReturnSentAlways(brokerErr) ==
    [err |-> IF HasFenceText(brokerErr) THEN NoError ELSE brokerErr, sent |-> TRUE]

PublishReturn(brokerErr) ==
    IF brokerErr # NoError /\ HasFenceText(brokerErr)
    THEN [err |-> NoError, sent |-> FALSE]
    ELSE [err |-> brokerErr, sent |-> TRUE]

\* The effect of one Client.Publish call whose broker answer is brokerErr.
Publish(data, subjTokens, brokerErr) ==
    LET subject == PublishSubject(subjTokens)
        ret == PublishReturn(brokerErr)
    IN  /\ stream' = IF brokerErr = NoError
                     THEN Append(stream, [subject |-> subject, data |-> data])
                     ELSE stream
        /\ ncons' = IF brokerErr = NoError
                    THEN Append(ncons, Fresh(subject))
                    ELSE ncons
        /\ lastPub' = [called |-> TRUE, toks |-> subjTokens, subject |-> subject,
                       data |-> data,
                       held |-> {stream[i].data : i \in OnSubject(stream, subject)},
                       broker |-> brokerErr, err |-> ret.err, sent |-> ret.sent]

\* -------------------------------------------------------------- producers

\* What the producers call Publish with: the tokens of a notify message of a
\* sequence and its payload, or one pre-dotted subject that lacks the message id.
ProducerMessages ==
    {[toks |-> <<ChannelNotify, <<"s1">>, EventMsgId>>, data |-> d] : d \in EventPayloads}
    \cup {[toks |-> <<ChannelNotify, <<"s1">>, <<"step1">>>>, data |-> d] :
             d \in ResultPayloads}
    \cup {[toks |-> <<ChannelNotify, <<"s2">>, EventMsgId>>, data |-> <<"push">>],
          [toks |-> <<Join(<<AccountId, ChannelNotify, <<"s1">>>>, Dot)>>,
           data |-> <<"push">>]}

\* An event source or a worker publishes a notify message through Client.Publish
\* and the broker answers: it accepts the message or rejects it at the fence.
Produce ==
    /\ produced < MaxProduced
    /\ \E m \in ProducerMessages :
         \E b \in JsPublishOutcomes(PublishSubject(m.toks)) \ BrokerErrors :
            Publish(m.data, m.toks, b)
    /\ produced' = produced + 1
    /\ last' = NoCallback
    /\ UNCHANGED <<rpc, cur, fetchVars, runVars>>
    /\ UNCHANGED <<workerVars, replay, received, hops, purged>>

\* What callers hand to Client.Publish as subjTokens: several tokens, one token
\* without a ".", no token, one pre-dotted subject with and without the account
\* in front, and two tokens of which one holds a ".".
PublishTokenLists ==
    {<<ChannelNotify, <<"s1">>, EventMsgId>>,
     <<ChannelNotify>>,
     <<>>,
     <<Join(<<AccountId, ChannelNotify, <<"s1">>, EventMsgId>>, Dot)>>,
     <<Join(<<<<"other">>, ChannelNotify, <<"s9">>, EventMsgId>>, Dot)>>,
     <<ChannelNotify, Join(<<<<"s1">>, <<"x">>>>, Dot)>>}

\* Some caller calls Client.Publish and the broker answers.
PublishCall ==
    /\ produced < MaxProduced
    /\ \E toks \in PublishTokenLists :
         \E d \in EventPayloads \cup ResultPayloads :
            \E b \in JsPublishOutcomes(PublishSubject(toks)) :
               Publish(d, toks, b)
    /\ produced' = produced + 1
    /\ last' = NoCallback
    /\ UNCHANGED <<rpc, cur, fetchVars, runVars>>
    /\ UNCHANGED <<workerVars, replay, received, hops, purged>>

\* a notify message with the message id "hops": its payload is the text of a rule
HopsMsgId == <<"hops">>
HopsPayload == <<"on push { call slack_notify {} }">>

\* A producer publishes a rule body on a sequence, as {account}.notify.{seq}.hops.
ProduceHops ==
    /\ produced < MaxProduced
    /\ \E b \in JsPublishOutcomes(PublishSubject(<<ChannelNotify, <<"s1">>, HopsMsgId>>))
                 \ BrokerErrors :
            Publish(HopsPayload, <<ChannelNotify, <<"s1">>, HopsMsgId>>, b)
    /\ produced' = produced + 1
    /\ last' = NoCallback
    /\ UNCHANGED <<rpc, cur, fetchVars, runVars>>
    /\ UNCHANGED <<workerVars, replay, received, hops, purged>>

\* The stream stops retaining one of its messages (a limit of the stream, a
\* purge or a delete): consumers no longer deliver it, reads no longer find it.
Purge ==
    /\ Cardinality(purged) < MaxPurged
    /\ \E i \in 1..Len(stream) \ purged : purged' = purged \cup {i}
    /\ lastPub' = NoPublish
    /\ last' = NoCallback
    /\ UNCHANGED <<stream, produced, ncons, rpc, cur, fetchVars, runVars, hops>>
    /\ UNCHANGED <<workerVars, replay, received>>

\* --------------------------------------------------------------------- DSL

\* fmt.Sprintf("%d", idx) for the block indexes that occur
Digits == <<"0", "1", "2", "3">>
Itoa(idx) == <<Digits[idx + 1]>>

\* slug.Make on one atom: a space becomes a dash, everything else the model
\* uses (lower-case letters, digits, "-" and "_") is kept
SlugAtom(a) == IF a = " " THEN Dash ELSE a

\* slugify(parts...)
Slugify(parts) ==
    LET joined == Join(parts, Dash) IN [i \in 1..Len(joined) |-> SlugAtom(joined[i])]

\* The runner's preloaded rule body: its on blocks, each with its label, its
\* name attribute (<<>>: none), its if attribute and its call blocks.
HopsBody == <<
    [label |-> <<"push">>, name |-> <<>>, ifClause |-> "none",
     calls |-> << [label |-> <<"github", "_", "tag">>, name |-> <<>>,
                   ifClause |-> "none", inputs |-> <<"ref", "v1">>],
                  [label |-> <<"noop">>, name |-> <<>>,
                   ifClause |-> "true", inputs |-> <<"x">>],
                  [label |-> <<"github", "_", "skip">>, name |-> <<>>,
                   ifClause |-> "false", inputs |-> <<"y">>] >>],
    [label |-> <<"pr">>, name |-> <<>>, ifClause |-> "none",
     calls |-> << [label |-> <<"github", "_", "merge">>, name |-> <<>>,
                   ifClause |-> "none", inputs |-> <<"pr">>] >>],
    [label |-> <<"pr">>, name |-> <<"second">>, ifClause |-> "true",
     calls |-> << [label |-> <<"slack", "_", "post", "_", "msg">>, name |-> <<>>,
                   ifClause |-> "error", inputs |-> <<"hi">>],
                  [label |-> <<"slack", "_", "post", "_", "msg">>, name |-> <<"say">>,
                   ifClause |-> "none", inputs |-> <<"hi">>] >>],
    [label |-> <<"push">>, name |-> <<"never">>, ifClause |-> "false",
     calls |-> << [label |-> <<"github", "_", "tag">>, name |-> <<>>,
                   ifClause |-> "none", inputs |-> <<"ref", "v2">>] >>]
  >>

\* the rule of the happy path: on push { call github_tag { inputs = {ref: "v1"} } }
HappyPathBody == <<
    [label |-> <<"push">>, name |-> <<>>, ifClause |-> "none",
     calls |-> << [label |-> <<"github", "_", "tag">>, name |-> <<>>,
                   ifClause |-> "none", inputs |-> <<"ref", "v1">>] >>]
  >>

\* Rule bodies with blocks of the same slug. Two on blocks named x, the first of
\* which is for pr events:
DupOnBody == <<
    [label |-> <<"pr">>, name |-> <<"x">>, ifClause |-> "none",
     calls |-> << [label |-> <<"github", "_", "merge">>, name |-> <<>>,
                   ifClause |-> "none", inputs |-> <<"pr">>] >>],
    [label |-> <<"push">>, name |-> <<"x">>, ifClause |-> "none",
     calls |-> << [label |-> <<"github", "_", "tag">>, name |-> <<>>,
                   ifClause |-> "none", inputs |-> <<"ref", "v1">>] >>]
  >>

\* two calls named t in one on block
DupCallBody == <<
    [label |-> <<"push">>, name |-> <<>>, ifClause |-> "none",
     calls |-> << [label |-> <<"github", "_", "tag">>, name |-> <<"t">>,
                   ifClause |-> "none", inputs |-> <<"ref", "v1">>],
                  [label |-> <<"github", "_", "merge">>, name |-> <<"t">>,
                   ifClause |-> "none", inputs |-> <<"ref", "v2">>] >>]
  >>

\* two calls named t in one on block, the first with an if that is false
DupFilteredCallBody == <<
    [label |-> <<"push">>, name |-> <<>>, ifClause |-> "none",
     calls |-> << [label |-> <<"github", "_", "tag">>, name |-> <<"t">>,
                   ifClause |-> "false", inputs |-> <<"ref", "v1">>],
                  [label |-> <<"github", "_", "merge">>, name |-> <<"t">>,
                   ifClause |-> "none", inputs |-> <<"ref", "v2">>] >>]
  >>

\* A rule body whose blocks repeat labels but not names: two unnamed on push
\* blocks, each with an unnamed call of one task type.
DistinctBody == <<
    [label |-> <<"push">>, name |-> <<>>, ifClause |-> "none",
     calls |-> << [label |-> <<"github", "_", "tag">>, name |-> <<>>,
                   ifClause |-> "none", inputs |-> <<"ref", "v1">>] >>],
    [label |-> <<"push">>, name |-> <<>>, ifClause |-> "none",
     calls |-> << [label |-> <<"github", "_", "tag">>, name |-> <<>>,
                   ifClause |-> "none", inputs |-> <<"ref", "v1">>] >>]
  >>

SlugBodies == {DupOnBody, DupCallBody, DupFilteredCallBody, DistinctBody}

HopsError == [err_code |-> 0, description |-> "failed to decode hops"]
DispatchParseError ==
    [err_code |-> 0, description |-> "Unable to parse app/handler from call"]

\* parseEventVar: the type and the action of the bundle's source event
ParseEventVar(eventBundle) ==
    IF EventMsgId \in DOMAIN eventBundle
    THEN LET c == Cut(eventBundle[EventMsgId], Underscore)
         IN  [ok |-> TRUE, eventType |-> c.before, eventAction |-> c.after]
    ELSE [ok |-> FALSE, eventType |-> <<>>, eventAction |-> <<>>]

\* hop.SlugRegister[slug]: this variant never finds a slug
SlugRegisteredNever(reg, slug) == FALSE

\* hop.SlugRegister[slug]
SlugRegistered(reg, slug) == slug \in reg

\* DecodeCallBlock naming a call without a name attribute by its task type alone
CallNameNoIndex(block, idx) ==
    IF block.name = <<>> THEN block.label ELSE block.name

\* DecodeCallBlock: the name attribute, or the task type and the block's index
CallName(block, idx) ==
    IF block.name = <<>> THEN block.label \o Itoa(idx) ELSE block.name

\* DecodeCallBlock: st is [calls, reg, err], the calls of the on block so far,
\* the slug register and the error
DecodeCallBlock(st, onSlug, block, idx) ==
    LET name == CallName(block, idx)
        slug == Slugify(<<onSlug, name>>)
        call == [TaskType |-> block.label, Name |-> name, Slug |-> slug,
                 Inputs |-> block.inputs]
    IN  IF SlugRegistered(st.reg, slug)
        THEN [st EXCEPT !.err = TRUE]
        ELSE IF block.ifClause \in {"false", "error"}
        THEN [st EXCEPT !.reg = @ \cup {slug}]
        ELSE [st EXCEPT !.reg = @ \cup {slug}, !.calls = Append(@, call)]

RECURSIVE DecodeCalls(_, _, _, _)
\* DecodeOnBlock's loop over the call blocks, from block idx (0-based) on
DecodeCalls(st, onSlug, blocks, idx) ==
    IF st.err \/ idx >= Len(blocks) THEN st
    ELSE DecodeCalls(DecodeCallBlock(st, onSlug, blocks[idx + 1], idx),
                     onSlug, blocks, idx + 1)

\* DecodeOnBlock: hop is [Ons, reg, err]
DecodeOnBlock(hop, block, idx, eventBundle) ==
    LET name == IF block.name = <<>> THEN block.label \o Itoa(idx) ELSE block.name
        slug == Slugify(<<name>>)
        ev == ParseEventVar(eventBundle)
        bc == Cut(block.label, Underscore)
        reg == hop.reg \cup {slug}
    IN  IF SlugRegistered(hop.reg, slug) THEN [hop EXCEPT !.err = TRUE]
        ELSE IF ~ev.ok THEN [hop EXCEPT !.reg = reg, !.err = TRUE]
        ELSE IF bc.before # ev.eventType THEN [hop EXCEPT !.reg = reg]
        ELSE IF bc.found /\ bc.after # ev.eventAction THEN [hop EXCEPT !.reg = reg]
        ELSE IF block.ifClause = "error" THEN [hop EXCEPT !.reg = reg, !.err = TRUE]
        ELSE IF block.ifClause = "false" THEN [hop EXCEPT !.reg = reg]
        ELSE LET d == DecodeCalls([calls |-> <<>>, reg |-> reg, err |-> FALSE],
                                  slug, block.calls, 0)
             IN  IF d.err THEN [hop EXCEPT !.reg = d.reg, !.err = TRUE]
                 ELSE [Ons |-> Append(hop.Ons,
                                      [EventType |-> block.label, Name |-> name,
                                       Slug |-> slug, Calls |-> d.calls]),
                       reg |-> d.reg, err |-> FALSE]

RECURSIVE DecodeHopsBody(_, _, _, _)
\* DecodeHopsBody's loop over the on blocks, from block idx (0-based) on
DecodeHopsBody(hop, body, idx, eventBundle) ==
    IF hop.err \/ idx >= Len(body) THEN hop
    ELSE DecodeHopsBody(DecodeOnBlock(hop, body[idx + 1], idx, eventBundle),
                        body, idx + 1, eventBundle)

\* ParseHops: the matched on blocks with their calls, or err
ParseHops(hopsBody, eventBundle) ==
    IF Len(hopsBody) = 0
    THEN [Ons |-> <<>>, reg |-> {}, err |-> TRUE]
    ELSE DecodeHopsBody([Ons |-> <<>>, reg |-> {}, err |-> FALSE],
                        hopsBody, 0, eventBundle)

\* the rule a "hops" payload holds: on push { call slack_notify {} }
OverrideBody == <<
    [label |-> <<"push">>, name |-> <<>>, ifClause |-> "none",
     calls |-> << [label |-> <<"slack", "_", "notify">>, name |-> <<>>,
                   ifClause |-> "none", inputs |-> <<>>] >>]
  >>

\* the rule body a payload holds (<<>>: none that can be read)
ReadBody(data) == IF data = HopsPayload THEN OverrideBody ELSE <<>>

\* the rule body taken from the bundle's "hops" entry when it has one
SequenceHopsFromBundle(msgBundle) ==
    IF HopsMsgId \notin DOMAIN msgBundle THEN hops ELSE ReadBody(msgBundle[HopsMsgId])

\* Runner.sequenceHops: the rule body for a bundle
SequenceHops(msgBundle) ==
    IF HopsMsgId \notin DOMAIN msgBundle THEN hops ELSE hops


\* -------------------------------------------------------- ConsumeSequences

\* seconds of delay ConsumeSequences asks for when it nak's a message
NakDelay == 3

\* The record of one finished delivery of a message to the consume callback:
\* whether it parsed, how the fetch went, whether the handler was invoked, with
\* which arguments, whether it failed, which subjects it published to, and how
\* the message was settled.
Delivery(parsed, fetched, invoked, seqId, msgBundle, failed, subjects, op, delay) ==
    [parsed |-> parsed, fetched |-> fetched, invoked |-> invoked,
     seqIdArg |-> seqId, bundleArg |-> msgBundle, failed |-> failed,
     subjects |-> subjects, op |-> op, delay |-> delay]

NotInvoked(parsed, fetched, op, delay) ==
    Delivery(parsed, fetched, FALSE, <<>>, EmptyMap, FALSE, {}, op, delay)

\* how ConsumeSequences settles a message that does not parse; a variant that
\* sends it back for redelivery
ParseFailureOpNak == "nak"

ParseFailureOp == "term"

\* the callback settles the message it holds and ends
Settle(n, st, d) ==
    ncons' = [ncons EXCEPT ![n] = [st |-> st, hist |-> Append(@.hist, d)]]

RECURSIVE SumOver(_, _)
SumOver(f, i) == IF i = 0 THEN 0 ELSE f[i] + SumOver(f, i - 1)

\* how many times the notify consumer has delivered a message again
Redelivered ==
    LET again == [n \in 1..Len(ncons) |->
                    IF Len(ncons[n].hist) + (IF ncons[n].st = "flight" THEN 1 ELSE 0) > 1
                    THEN Len(ncons[n].hist) + (IF ncons[n].st = "flight" THEN 1 ELSE 0) - 1
                    ELSE 0]
    IN  SumOver(again, Len(ncons))

\* messages the notify consumer may hand to the callback next: the first one
\* never delivered, or one that was nak'd
Deliverable ==
    {n \in 1..Len(ncons) \ purged :
        \/ ncons[n].st = "nak" /\ Redelivered < MaxRedeliver
        \/ /\ ncons[n].st = "wait"
           /\ \A k \in 1..(n - 1) \ purged : ncons[k].st # "wait"}

\* ConsumeSequences when FetchMessageBundle returned an error: nak with delay,
\* then panic, which ends the process.
FetchFailed(why) ==
    /\ Settle(cur, "nak", NotInvoked(TRUE, why, "nak", NakDelay))
    /\ rpc' = "crashed"
    /\ cur' = 0
    /\ fcursor' = 0
    /\ bundle' = EmptyMap
    /\ last' = NoCallback
    /\ UNCHANGED runVars

\* the next message after stream sequence c that the ordered consumer of
\* FetchMessageBundle delivers (0: none yet); it reads what the stream retains
NextMatching(filter, c) ==
    LET later == {i \in (c + 1)..Len(stream) \ purged :
                     Matches(filter, stream[i].subject)}
    IN  IF later = {} THEN 0 ELSE CHOOSE i \in later : \A j \in later : i <= j

\* One pass of FetchMessageBundle's loop over the message at stream sequence m:
\* the bundle after it and whether the loop fails, goes on or is done. This
\* variant tests for the end of the read before it adds the message.
FetchStepBreakFirst(b, m, newMsg) ==
    LET msg == Parse(stream[m].subject, m) IN
    IF ~msg.ok THEN [status |-> "error", bundle |-> b]
    ELSE IF msg.StreamSequence > newMsg.StreamSequence
    THEN [status |-> "overrun", bundle |-> b]
    ELSE IF msg.StreamSequence = newMsg.StreamSequence
    THEN [status |-> "done", bundle |-> b]
    ELSE [status |-> "more", bundle |-> MapPut(b, msg.MessageId, stream[m].data)]

\* This variant does not compare the message's stream sequence with the
\* triggering message's before it adds the message.
FetchStepNoOverrun(b, m, newMsg) ==
    LET msg == Parse(stream[m].subject, m) IN
    IF ~msg.ok THEN [status |-> "error", bundle |-> b]
    ELSE [status |-> IF msg.StreamSequence = newMsg.StreamSequence
                     THEN "done" ELSE "more",
          bundle |-> MapPut(b, msg.MessageId, stream[m].data)]

FetchStep(b, m, newMsg) ==
    LET msg == Parse(stream[m].subject, m) IN
    IF ~msg.ok THEN [status |-> "error", bundle |-> b]
    ELSE IF msg.StreamSequence > newMsg.StreamSequence
    THEN [status |-> "overrun", bundle |-> b]
    ELSE [status |-> IF msg.StreamSequence = newMsg.StreamSequence
                     THEN "done" ELSE "more",
          bundle |-> MapPut(b, msg.MessageId, stream[m].data)]

\* ---------------------------------------------------------------- runner

\* what ConsumeSequences does with the message once the handler has returned
\* ret (<<>> is nil): this variant acks whatever the handler returned
SettleOpAlwaysAck(ret) == "ack"

SettleOp(ret) == IF ret # <<>> THEN "nak" ELSE "ack"

\* the sequence id ConsumeSequences hands to the handler: this variant hands
\* over the message id
HandlerSequenceIdMsgId(hopsMsg) == hopsMsg.MessageId

HandlerSequenceId(hopsMsg) == hopsMsg.SequenceId

\* the subjects the dispatchCall goroutines noted in attempts published to
PublishedTo(attempts) == {a.subject : a \in {x \in attempts : x.published}}

\* ConsumeSequences after handler.SequenceCallback(seqId, msgBundle) returned
\* ret: the message is settled and the callback's locals are gone.
Finish(ret, seqId, msgBundle, attempts) ==
    /\ Settle(cur, SettleOp(ret),
              Delivery(TRUE, "ok", TRUE, seqId, msgBundle, ret # <<>>,
                       PublishedTo(attempts), SettleOp(ret),
                       IF SettleOp(ret) = "nak" THEN NakDelay ELSE 0))
    /\ last' = [n |-> cur, ret |-> ret, attempts |-> attempts]
    /\ rpc' = "idle"
    /\ cur' = 0
    /\ fcursor' = 0
    /\ bundle' = EmptyMap
    /\ cbSeqId' = <<>>
    /\ cbBundle' = EmptyMap
    /\ ons' = <<>>
    /\ onIdx' = 0
    /\ tasks' = <<>>
    /\ errorchan' = <<>>
    /\ sensorErrors' = <<>>
    /\ attempted' = {}

\* dispatchCalls starts one goroutine per call of the on block
Spawn(on) == [i \in 1..Len(on.Calls) |-> "go"]

\* ConsumeSequences calls SequenceCallback with the bundle: the rule body is
\* chosen and parsed, and the calls of the first matched on block are started.
SequenceCallbackStart(msgBundle) ==
    LET hopsMsg == Parse(stream[cur].subject, cur)
        seqId == HandlerSequenceId(hopsMsg)
        hop == ParseHops(SequenceHops(msgBundle), msgBundle)
    IN  IF hop.err
        THEN Finish(<<<<HopsError>>>>, seqId, msgBundle, {})
        ELSE IF Len(hop.Ons) = 0
        THEN Finish(<<>>, seqId, msgBundle, {})
        ELSE /\ cbSeqId' = seqId
             /\ cbBundle' = msgBundle
             /\ ons' = hop.Ons
             /\ onIdx' = 1
             /\ tasks' = Spawn(hop.Ons[1])
             /\ rpc' = "dispatch"
             /\ last' = NoCallback
             /\ fcursor' = 0
             /\ bundle' = EmptyMap
             /\ UNCHANGED <<ncons, cur, errorchan, sensorErrors, attempted>>

\* ConsumeSequences' callback receives a message and parses it; a message that
\* does not parse is terminated. For one that parses, FetchMessageBundle creates
\* the ordered consumer and opens its messages.
Receive ==
    /\ rpc = "idle"
    /\ cstate # "returned"
    /\ \E n \in Deliverable :
         LET hopsMsg == Parse(stream[n].subject, n) IN
         IF ~hopsMsg.ok
         THEN /\ Settle(n, ParseFailureOp, NotInvoked(FALSE, "none", ParseFailureOp, 0))
              /\ UNCHANGED <<rpc, cur>>
         ELSE \E e \in {NoError} \cup FetchErrors :
                IF e # NoError
                THEN /\ Settle(n, "nak", NotInvoked(TRUE, "fail", "nak", NakDelay))
                     /\ rpc' = "crashed"
                     /\ UNCHANGED cur
                ELSE /\ ncons' = [ncons EXCEPT ![n].st = "flight"]
                     /\ rpc' = "fetching"
                     /\ cur' = n
    /\ lastPub' = NoPublish
    /\ last' = NoCallback
    /\ UNCHANGED <<stream, produced, fetchVars, runVars>>
    /\ UNCHANGED <<workerVars, replay, received, hops, purged>>

\* FetchMessageBundle reads the next message of the sequence; Next() blocks
\* while there is none and can fail. With the bundle complete, ConsumeSequences
\* calls the handler.
FetchNext ==
    /\ rpc = "fetching"
    /\ lastPub' = NoPublish
    /\ UNCHANGED <<stream, produced>>
    /\ LET newMsg == Parse(stream[cur].subject, cur)
           m == NextMatching(SequenceFilter(newMsg), fcursor)
       IN  \E e \in {NoError} \cup FetchErrors :
             IF e # NoError
             THEN FetchFailed("fail")
             ELSE /\ m # 0
                  /\ LET r == FetchStep(bundle, m, newMsg) IN
                     IF r.status \in {"error", "overrun"}
                     THEN FetchFailed(IF r.status = "overrun" THEN "overrun" ELSE "fail")
                     ELSE IF r.status = "done"
                     THEN SequenceCallbackStart(r.bundle)
                     ELSE /\ fcursor' = m
                          /\ bundle' = r.bundle
                          /\ last' = NoCallback
                          /\ UNCHANGED <<ncons, rpc, cur, runVars>>
    /\ UNCHANGED <<workerVars, replay, received, hops, purged>>

\* the stream holds a message for the read of FetchMessageBundle under way:
\* Next() has something to return
ReadCanProceed ==
    /\ rpc = "fetching"
    /\ \E filter \in {SequenceFilter(Parse(stream[cur].subject, cur))} :
          NextMatching(filter, fcursor) # 0

\* Next() returns while the stream holds a message for the read, and the loop
\* of FetchMessageBundle makes one pass: the read is past one more message or
\* FetchMessageBundle has returned.
ReadMoves ==
    /\ ReadCanProceed
    /\ \E r \in {"fetching", "dispatch", "idle", "crashed"} :
         \E c \in 0..Len(stream) :
            /\ rpc' = r
            /\ fcursor' = c
            /\ r # "fetching" \/ c # fcursor

\* dispatchCall: the value it sends on errorchan when Publish was answered
\* brokerErr. This variant reports every error of the broker.
DispatchCallErrRaw(brokerErr) == brokerErr

DispatchCallErr(brokerErr) ==
    LET err == PublishReturn(brokerErr).err IN
    IF err # NoError /\ ~HasFenceCode(err) THEN err ELSE NoError

\* dispatchCall: the subject tokens it publishes a call to; this variant cuts
\* the task type at every "_"
RequestTokensSplitAll(call, sequenceId) ==
    <<ChannelRequest, sequenceId, call.Slug>> \o Split(call.TaskType, Underscore)

RequestTokens(call, sequenceId) ==
    LET c == Cut(call.TaskType, Underscore) IN
    <<ChannelRequest, sequenceId, call.Slug, c.before, c.after>>

\* dispatchCall: whether strings.Cut finds the "_" of the call's task type; a
\* variant that does not look
TaskTypeFoundAlways(call) == TRUE

TaskTypeFound(call) == Cut(call.TaskType, Underscore).found

\* the note of one dispatchCall: which call, whether and where it called
\* Publish, what the broker answered and what it sent on errorchan
Attempt(i, call, subject, published, broker, err) ==
    [on |-> onIdx, call |-> i, slug |-> call.Slug, subject |-> subject,
     published |-> published, broker |-> broker, err |-> err]

\* One dispatchCall goroutine runs: a task type without "_" is an error, else
\* the call's inputs are published to its request subject.
DispatchCall ==
    /\ rpc = "dispatch"
    /\ \E i \in DOMAIN tasks :
         /\ tasks[i] = "go"
         /\ Len(errorchan) < Len(ons[onIdx].Calls)
         /\ tasks' = [tasks EXCEPT ![i] = "done"]
         /\ LET call == ons[onIdx].Calls[i] IN
            IF ~TaskTypeFound(call)
            THEN /\ errorchan' = Append(errorchan, DispatchParseError)
                 /\ attempted' = attempted \cup
                                   {Attempt(i, call, <<>>, FALSE, NoError,
                                            DispatchParseError)}
                 /\ lastPub' = NoPublish
                 /\ UNCHANGED <<stream, ncons>>
            ELSE LET toks == RequestTokens(call, cbSeqId) IN
                 \E b \in JsPublishOutcomes(PublishSubject(toks)) :
                    /\ Publish(call.Inputs, toks, b)
                    /\ errorchan' = Append(errorchan, DispatchCallErr(b))
                    /\ attempted' = attempted \cup
                                      {Attempt(i, call, PublishSubject(toks), TRUE, b,
                                               DispatchCallErr(b))}
    /\ last' = NoCallback
    /\ UNCHANGED <<produced, rpc, cur, fetchVars, cbSeqId, cbBundle, ons, onIdx,
                   sensorErrors>>
    /\ UNCHANGED <<workerVars, replay, received, hops, purged>>

\* dispatchCalls: this variant returns the first error read from errorchan
JoinErrorsFirst(chan) ==
    LET errs == SelectSeq(chan, LAMBDA e : e # NoError)
    IN  IF errs = <<>> THEN <<>> ELSE <<Head(errs)>>

\* dispatchCalls: errors.Join over the values read from errorchan (<<>> is nil)
JoinErrors(chan) == SelectSeq(chan, LAMBDA e : e # NoError)

\* SequenceCallback: the aggregate after an on block returned errs; this
\* variant keeps only the latest failure
AppendSensorErrorsLast(agg, errs) == IF errs # <<>> THEN <<errs>> ELSE agg

AppendSensorErrors(agg, errs) == IF errs # <<>> THEN Append(agg, errs) ELSE agg

\* dispatchCalls returns once every goroutine is done; SequenceCallback adds its
\* error to the aggregate and goes on to the next on block, or returns.
JoinCalls ==
    /\ rpc = "dispatch"
    /\ \A i \in DOMAIN tasks : tasks[i] = "done"
    /\ LET agg == AppendSensorErrors(sensorErrors, JoinErrors(errorchan)) IN
       IF onIdx < Len(ons)
       THEN /\ sensorErrors' = agg
            /\ errorchan' = <<>>
            /\ onIdx' = onIdx + 1
            /\ tasks' = Spawn(ons[onIdx + 1])
            /\ last' = NoCallback
            /\ UNCHANGED <<ncons, rpc, cur, fetchVars, cbSeqId, cbBundle, ons,
                           attempted>>
       ELSE Finish(agg, cbSeqId, cbBundle, attempted)
    /\ lastPub' = NoPublish
    /\ UNCHANGED <<stream, produced>>
    /\ UNCHANGED <<workerVars, replay, received, hops, purged>>

\* ------------------------------------------------------------------ worker

\* the app the worker serves and the handlers it registers
AppName == <<"github">>
Handlers == {<<"tag">>}

HandlerErrors == {[err_code |-> 1, description |-> "boom"]}
InProgressError == [err_code |-> 2, description |-> "nats: message was already acknowledged"]
AckError == [err_code |-> 3, description |-> "nats: timeout"]

\* initWorkerConsumer: AckWait, in seconds
AckWait == 60

\* The worker's clock counts seconds in steps of a third of AckWait, which is
\* half the ticker's period.
TimeStep == AckWait \div 3
MaxTime == MaxSteps * TimeStep

\* WorkerRequestSubject: {account}.request.*.*.{app}.{handler}
WorkerRequestSubject(appName, handler) ==
    Join(<<AccountId, ChannelRequest, <<"*">>, <<"*">>, appName, handler>>, Dot)

\* the filter of the durable consumer {account}-request-{app}
WorkerFilter == WorkerRequestSubject(AppName, <<"*">>)

\* MsgMeta.ResponseSubject: the notify subject of the request's call
ResponseSubject(meta) ==
    Join(<<AccountId, ChannelNotify, meta.SequenceId, meta.MessageId>>, Dot)

\* time.Time as JSON; the zero time is year 1
FormatTime(t) == IF t = 0 THEN "0001-01-01T00:00:00Z" ELSE ToString(t)

\* json.Marshal of a ResultMsg
MarshalResult(r) ==
    <<"started_at", FormatTime(r.StartedAt), "finished_at", FormatTime(r.FinishedAt),
      "status", r.Status, "error", r.Error.description>>

\* the zero ResultMsg
NoResult == [StartedAt |-> 0, FinishedAt |-> 0, Status |-> "", Error |-> NoError]

\* wlast when the latest step did not end a worker callback
NoWorkerCallback ==
    [n |-> 0, hret |-> "none", handlerErr |-> NoError, firstErr |-> NoError,
     ret |-> NoError,
     result |-> NoResult, pubs |-> 0, op |-> "none", ackErr |-> NoError]

\* the worker consumer's state of a message the stream has just stored
WFresh(subject) ==
    [st |-> IF Matches(WorkerFilter, subject) THEN "wait" ELSE "skip", hist |-> <<>>]

\* the worker consumer's states once the stream is s
WExtend(wc, s) ==
    [i \in 1..Len(s) |-> IF i <= Len(wc) THEN wc[i] ELSE WFresh(s[i].subject)]

\* how many times the worker consumer has delivered a request again
WRedelivered ==
    LET again == [n \in 1..Len(wcons) |->
                    IF Len(wcons[n].hist) + (IF wcons[n].st = "flight" THEN 1 ELSE 0) > 1
                    THEN Len(wcons[n].hist) + (IF wcons[n].st = "flight" THEN 1 ELSE 0) - 1
                    ELSE 0]
    IN  SumOver(again, Len(wcons))

\* requests the worker consumer may hand to the callback next: the first one
\* never delivered, or one that was nak'd or whose ack the broker never saw
WDeliverable ==
    {n \in 1..Len(wcons) :
        \/ wcons[n].st \in {"nak", "pending"} /\ WRedelivered < MaxWRedeliver
        \/ /\ wcons[n].st = "wait"
           /\ \A k \in 1..(n - 1) : wcons[k].st # "wait"}

\* What the runner side publishes for the worker: requests for a handler the
\* worker registers and for one it does not.
RequestMessages ==
    {[toks |-> <<ChannelRequest, <<"s1">>, <<"c1">>, AppName, <<"tag">>>>,
      data |-> <<"ref", "v1">>],
     [toks |-> <<ChannelRequest, <<"s1">>, <<"c2">>, AppName, <<"nope">>>>,
      data |-> <<"ref", "v1">>]}

\* A request reaches the stream through Client.Publish.
WRequest ==
    /\ produced < MaxRequests
    /\ \E m \in RequestMessages :
         \E b \in JsPublishOutcomes(PublishSubject(m.toks)) \ BrokerErrors :
            Publish(m.data, m.toks, b)
    /\ produced' = produced + 1
    /\ wcons' = WExtend(wcons, stream')
    /\ wlast' = NoWorkerCallback
    /\ UNCHANGED <<wpc, wcur, result, hstate, herr, firstErr, tickReady, tickAt, now, leaked,
                   orphans, ackDeadline>>
    /\ UNCHANGED <<runnerVars, cstate, replay, received, purged>>

\* the worker callback settles the request n with op and ends
WSettle(n, st, op) ==
    wcons' = [WExtend(wcons, stream') EXCEPT
                 ![n] = [st |-> st, hist |-> Append(@.hist, op)]]

\* Worker.Run for a request whose handler it does not know: this variant sends
\* the request back for redelivery
UnknownHandlerSettleNak == [st |-> "nak", op |-> "Nak"]

\* Worker.Run for a request whose handler it does not know: msg.Term()
UnknownHandlerSettle == [st |-> "term", op |-> "Term"]

\* runHandler: the period of the ticker
TickerPeriod(deadline) == deadline - (deadline \div 3)

\* Worker.Run's callback up to runHandler's select: parse, StartedAt, handler
\* lookup; runHandler makes the ticker, starts the goroutine and sends the
\* first in-progress signal, whose error (firstErr) it drops.
WReceive ==
    /\ wpc = "idle"
    /\ cstate # "returned"
    /\ UNCHANGED <<stream, produced, ncons, now, leaked, orphans>>
    /\ \E n \in WDeliverable :
         LET parsedMsg == Parse(stream[n].subject, n) IN
         IF ~parsedMsg.ok
         THEN /\ WSettle(n, "nak", "Nak")
              /\ wlast' = [NoWorkerCallback EXCEPT !.n = n, !.op = "Nak"]
              /\ UNCHANGED <<wpc, wcur, result, hstate, herr, firstErr, tickReady, tickAt,
                             ackDeadline>>
         ELSE IF parsedMsg.HandlerName \notin Handlers
         THEN /\ WSettle(n, UnknownHandlerSettle.st, UnknownHandlerSettle.op)
              /\ wlast' = [NoWorkerCallback EXCEPT
                             !.n = n, !.op = UnknownHandlerSettle.op,
                             !.result = [NoResult EXCEPT !.StartedAt = now]]
              /\ UNCHANGED <<wpc, wcur, result, hstate, herr, firstErr, tickReady, tickAt,
                             ackDeadline>>
         ELSE /\ wcons' = [wcons EXCEPT ![n].st = "flight"]
              /\ wcur' = n
              /\ result' = [NoResult EXCEPT !.StartedAt = now]
              /\ hstate' = "running"
              /\ herr' = NoError
              /\ \E f \in {NoError, InProgressError} : firstErr' = f
              /\ tickReady' = FALSE
              /\ tickAt' = now + TickerPeriod(AckWait)
              /\ ackDeadline' = now + AckWait
              /\ wpc' = "select"
              /\ wlast' = NoWorkerCallback
    /\ lastPub' = NoPublish
    /\ UNCHANGED <<runnerVars, cstate, replay, received, purged>>

\* The handler returns, nil or an error, and its goroutine goes on to send the
\* outcome on doneChan or errChan, where it blocks until runHandler receives.
HandlerReturn ==
    /\ hstate = "running"
    /\ \E e \in {NoError} \cup HandlerErrors :
         /\ herr' = e
         /\ hstate' = IF e = NoError THEN "sendDone" ELSE "sendErr"
    /\ lastPub' = NoPublish
    /\ wlast' = NoWorkerCallback
    /\ UNCHANGED <<stream, produced, ncons, wcons, wpc, wcur, result, firstErr,
                   tickReady, tickAt, now, leaked, orphans, ackDeadline>>
    /\ UNCHANGED <<runnerVars, cstate, replay, received, purged>>

\* Time passes; the ticker puts a tick on ticker.C when its period is over.
\* runHandler's goroutine waits in the select, so a case that is ready is taken
\* before a third of the ack-wait goes by.
WAdvance ==
    /\ now + TimeStep <= MaxTime
    /\ ~(wpc = "select" /\ (tickReady \/ hstate # "running"))
    /\ now' = now + TimeStep
    /\ IF wpc = "select" /\ now' >= tickAt
       THEN /\ tickReady' = TRUE
            /\ tickAt' = tickAt + TickerPeriod(AckWait)
       ELSE UNCHANGED <<tickReady, tickAt>>
    /\ lastPub' = NoPublish
    /\ wlast' = NoWorkerCallback
    /\ UNCHANGED <<stream, produced, ncons, wcons, wpc, wcur, result, hstate, herr, firstErr,
                   leaked, orphans, ackDeadline>>
    /\ UNCHANGED <<runnerVars, cstate, replay, received, purged>>

\* A handler whose runHandler has returned on a failed tick returns at last;
\* its goroutine then blocks on doneChan or errChan, which nobody reads.
OrphanReturn ==
    /\ \E n \in orphans : orphans' = orphans \ {n}
    /\ lastPub' = NoPublish
    /\ wlast' = NoWorkerCallback
    /\ UNCHANGED <<stream, produced, ncons, wcons, wpc, wcur, result, hstate, herr, firstErr,
                   tickReady, tickAt, now, leaked, ackDeadline>>
    /\ UNCHANGED <<runnerVars, cstate, replay, received, purged>>

\* Worker.Run after PublishResult: a variant that acknowledges whatever the
\* reply did
ReplySettleAlwaysAck(replyErr) == "DoubleAck"

ReplySettle(replyErr) == IF replyErr # NoError THEN "Nak" ELSE "DoubleAck"

\* what DoubleAck can return
AckOutcomes(op) == IF op = "DoubleAck" THEN {NoError, AckError} ELSE {NoError}

\* the worker consumer's state of a request after the callback's last call
SettledState(op, ackErr) ==
    IF op = "Nak" THEN "nak" ELSE IF ackErr = NoError THEN "ack" ELSE "pending"

\* the callback ends: its locals go, a goroutine still at work stays behind
WReturn(n, hret, ret, res, pubs, op, ackErr) ==
    /\ WSettle(n, SettledState(op, ackErr), op)
    /\ wlast' = [n |-> n, hret |-> hret, handlerErr |-> herr, firstErr |-> firstErr,
                 ret |-> ret,
                 result |-> res, pubs |-> pubs, op |-> op, ackErr |-> ackErr]
    /\ leaked' = leaked + (IF hret = "received" THEN 0 ELSE 1)
    /\ orphans' = IF hret = "running" THEN orphans \cup {n} ELSE orphans
    /\ ackDeadline' = 0
    /\ wpc' = "idle"
    /\ wcur' = 0
    /\ result' = NoResult
    /\ hstate' = "none"
    /\ herr' = NoError
    /\ firstErr' = NoError
    /\ tickReady' = FALSE
    /\ tickAt' = 0

\* Worker.Run publishing a result whatever runHandler returned
ResultPublishedAlways(ret) == TRUE

\* Worker.Run: the FAILURE result is published when runHandler returned an error
ResultPublished(ret) == ret # NoError

\* Worker.Run's callback once runHandler has returned ret: for an error it
\* publishes the FAILURE result and naks if that fails; otherwise it double-acks.
WFinish(ret, hret) ==
    LET parsedMsg == Parse(stream[wcur].subject, wcur)
        subj == ResponseSubject(parsedMsg)
        res == [result EXCEPT !.Status = "FAILURE", !.Error = ret, !.FinishedAt = now]
    IN  IF ResultPublished(ret)
        THEN \E b \in JsPublishOutcomes(PublishSubject(<<subj>>)) :
                /\ Publish(MarshalResult(res), <<subj>>, b)
                /\ \E a \in AckOutcomes(ReplySettle(PublishReturn(b).err)) :
                      WReturn(wcur, hret, ret, res, 1,
                              ReplySettle(PublishReturn(b).err), a)
        ELSE /\ lastPub' = NoPublish
             /\ UNCHANGED <<stream, ncons>>
             /\ \E a \in AckOutcomes(ReplySettle(NoError)) :
                   WReturn(wcur, hret, ret, result, 0, ReplySettle(NoError), a)

\* select takes the tick: InProgress; its error ends runHandler
WSelectTick ==
    /\ wpc = "select"
    /\ tickReady
    /\ \E e \in {NoError, InProgressError} :
         IF e = NoError
         THEN /\ tickReady' = FALSE
              /\ ackDeadline' = now + AckWait
              /\ lastPub' = NoPublish
              /\ wlast' = NoWorkerCallback
              /\ UNCHANGED <<stream, ncons, wcons, wpc, wcur, result, hstate, herr, firstErr,
                             tickAt, leaked, orphans>>
         ELSE WFinish(e, IF hstate = "running" THEN "running" ELSE "blocked")
    /\ UNCHANGED <<produced, now>>
    /\ UNCHANGED <<runnerVars, cstate, replay, received, purged>>

\* select receives from doneChan: runHandler returns nil
WSelectDone ==
    /\ wpc = "select"
    /\ hstate = "sendDone"
    /\ WFinish(NoError, "received")
    /\ UNCHANGED <<produced, now>>
    /\ UNCHANGED <<runnerVars, cstate, replay, received, purged>>

\* select receives from errChan: runHandler returns the handler's error
WSelectErr ==
    /\ wpc = "select"
    /\ hstate = "sendErr"
    /\ WFinish(herr, "received")
    /\ UNCHANGED <<produced, now>>
    /\ UNCHANGED <<runnerVars, cstate, replay, received, purged>>

\* The context Worker.Run was given is cancelled.
Cancel ==
    /\ cstate = "consuming"
    /\ cstate' = "cancelled"
    /\ lastPub' = NoPublish
    /\ wlast' = NoWorkerCallback
    /\ UNCHANGED <<stream, produced, ncons, wcons, wpc, wcur, result, hstate, herr, firstErr,
                   tickReady, tickAt, now, leaked, orphans, ackDeadline>>
    /\ UNCHANGED <<runnerVars, replay, received, purged>>

\* Client.Consume: <-ctx.Done() is over, the deferred consumer.Stop() runs and
\* Consume returns nil. Stop ends the subscription, so that no further message
\* is handed to the callback; it does not wait for a callback that is running.
ConsumeReturn ==
    /\ cstate = "cancelled"
    /\ cstate' = "returned"
    /\ lastPub' = NoPublish
    /\ wlast' = NoWorkerCallback
    /\ UNCHANGED <<stream, produced, ncons, wcons, wpc, wcur, result, hstate, herr, firstErr,
                   tickReady, tickAt, now, leaked, orphans, ackDeadline>>
    /\ UNCHANGED <<runnerVars, replay, received, purged>>

\* ----------------------------------------------------------------- consume

\* The notify consumer hands its next message to a callback registered with
\* Client.Consume, one that takes the message's subject and data and
\* acknowledges it. Nothing is handed over once Consume has stopped the consumer.
Deliver ==
    /\ cstate # "returned"
    /\ \E n \in 1..Len(ncons) :
         /\ ncons[n].st = "wait"
         /\ \A k \in 1..(n - 1) : ncons[k].st # "wait"
         /\ received' = Append(received, [seq |-> n, subject |-> stream[n].subject,
                                          data |-> stream[n].data])
         /\ ncons' = [ncons EXCEPT ![n].st = "ack"]
    /\ lastPub' = NoPublish
    /\ UNCHANGED <<stream, produced, replay, purged>>
    /\ UNCHANGED <<runnerVars, workerVars>>

\* ------------------------------------------------------------------ replay

\* the sequences a replay is asked for
OrigSequences == {<<"s1">>, <<"s2">>}

\* uuid.NewString()[:20]: the random part of a replay sequence id
Uuids == {<<ToString(i)>> : i \in 1..MaxReplays}

\* fmt.Sprintf("replay-%s", ...)
ReplaySequenceId(u) == <<"replay", Dash>> \o u

\* SourceEventSubject: {account}.notify.{sequence_id}.event
SourceEventSubject(sequenceId) ==
    Join(<<AccountId, ChannelNotify, sequenceId, EventMsgId>>, Dot)

\* ReplayFilterSubject: {account}.notify.{replay_sequence_id}.*
ReplayFilterSubject(replaySequenceId) ==
    Join(<<AccountId, ChannelNotify, replaySequenceId, <<"*">>>>, Dot)

\* no NewReplayClient call yet
NoReplay == [pc |-> "idle", orig |-> <<>>, data |-> <<>>, id |-> <<>>, clients |-> <<>>]

\* the replay sequence ids minted so far
MintedIds == {replay.clients[k].id : k \in 1..Len(replay.clients)}
                \cup (IF replay.pc = "idle" THEN {} ELSE {replay.id})

\* the client a NewReplayClient call has returned
ReplayClient(orig, data, id, created, broker) ==
    [orig |-> orig, source |-> data, id |-> id, created |-> created,
     broker |-> broker, delivered |-> <<>>]

\* initReplayConsumer up to the new id: the last message on the source event
\* subject is fetched (without one NewReplayClient fails) and an id is minted
ReplayStart ==
    /\ replay.pc = "idle"
    /\ Len(replay.clients) < MaxReplays
    /\ \E orig \in OrigSequences :
         LET at == OnSubject(stream, SourceEventSubject(orig)) IN
         /\ at # {}
         /\ \E u \in Uuids :
               /\ ReplaySequenceId(u) \notin MintedIds
               /\ replay' = [replay EXCEPT
                      !.pc = "create", !.orig = orig,
                      !.data = stream[CHOOSE i \in at : \A j \in at : j <= i].data,
                      !.id = ReplaySequenceId(u)]
    /\ lastPub' = NoPublish
    /\ UNCHANGED <<stream, produced, ncons>>
    /\ UNCHANGED <<runnerVars, workerVars, received, purged>>

\* CreateConsumer: the ephemeral consumer, filtered on the replay id's subjects
ReplayCreateConsumer ==
    /\ replay.pc = "create"
    /\ replay' = [replay EXCEPT !.pc = "publish"]
    /\ lastPub' = NoPublish
    /\ UNCHANGED <<stream, produced, ncons>>
    /\ UNCHANGED <<runnerVars, workerVars, received, purged>>

\* the source event is published under the replay id; what Publish returns is
\* dropped, the consumer is set on the client and initReplayConsumer returns nil
ReplayPublish ==
    /\ replay.pc = "publish"
    /\ \E b \in JsPublishOutcomes(PublishSubject(<<ChannelNotify, replay.id, EventMsgId>>)) :
         /\ Publish(replay.data, <<ChannelNotify, replay.id, EventMsgId>>, b)
         /\ replay' = [NoReplay EXCEPT
                !.clients = Append(replay.clients,
                               ReplayClient(replay.orig, replay.data, replay.id,
                                            Len(stream), b))]
    /\ UNCHANGED produced
    /\ UNCHANGED <<runnerVars, workerVars, received, purged>>

\* the messages the ephemeral consumer of client k has still to deliver
ReplayPending(k) ==
    {i \in 1..Len(stream) :
        /\ Matches(ReplayFilterSubject(replay.clients[k].id), stream[i].subject)
        /\ \A d \in 1..Len(replay.clients[k].delivered) :
              replay.clients[k].delivered[d] # i}

\* the ephemeral consumer of a replay client delivers its next message
ReplayDeliver ==
    /\ \E k \in 1..Len(replay.clients) :
         /\ ReplayPending(k) # {}
         /\ replay' = [replay EXCEPT
                !.clients[k].delivered =
                    Append(@, CHOOSE i \in ReplayPending(k) :
                                 \A j \in ReplayPending(k) : i <= j)]
    /\ lastPub' = NoPublish
    /\ UNCHANGED <<stream, produced, ncons>>
    /\ UNCHANGED <<runnerVars, workerVars, received, purged>>

\* ------------------------------------------------------------ specification

\* the state once the clients, the runner with its rule body and the worker are made
InitWith(body) ==
    /\ hops = body
    /\ stream = <<>>
    /\ produced = 0
    /\ lastPub = NoPublish
    /\ ncons = <<>>
    /\ rpc = "idle"
    /\ cur = 0
    /\ fcursor = 0
    /\ bundle = EmptyMap
    /\ cbSeqId = <<>>
    /\ cbBundle = EmptyMap
    /\ ons = <<>>
    /\ onIdx = 0
    /\ tasks = <<>>
    /\ errorchan = <<>>
    /\ sensorErrors = <<>>
    /\ attempted = {}
    /\ last = NoCallback
    /\ wcons = <<>>
    /\ wpc = "idle"
    /\ wcur = 0
    /\ result = NoResult
    /\ hstate = "none"
    /\ herr = NoError
    /\ firstErr = NoError
    /\ tickReady = FALSE
    /\ tickAt = 0
    /\ now = TimeStep
    /\ leaked = 0
    /\ orphans = {}
    /\ ackDeadline = 0
    /\ cstate = "consuming"
    /\ replay = NoReplay
    /\ received = <<>>
    /\ purged = {}
    /\ wlast = NoWorkerCallback

Init == InitWith(HopsBody)

Next ==
    \/ Produce
    \/ Receive
    \/ FetchNext
    \/ DispatchCall
    \/ JoinCalls

Spec == Init /\ [][Next]_vars

\* the runner made with the happy path's rule
RuleInit == InitWith(HappyPathBody)

RuleSpec == RuleInit /\ [][Next]_vars

\* the worker with the requests that reach it
WorkerNext ==
    \/ WRequest
    \/ WReceive
    \/ HandlerReturn
    \/ WAdvance
    \/ WSelectTick
    \/ WSelectDone
    \/ WSelectErr
    \/ OrphanReturn
    \/ Cancel
    \/ ConsumeReturn

WorkerSpec == Init /\ [][WorkerNext]_vars

\* Client.Consume on the notify consumer, with the event sources
ConsumeNext ==
    \/ Produce
    \/ Deliver
    \/ Cancel
    \/ ConsumeReturn

ConsumeSpec == Init /\ [][ConsumeNext]_vars

\* the broker hands a waiting message to the callback of a running Consume
ConsumeFairSpec == ConsumeSpec /\ WF_vars(Deliver)

\* replay clients next to the event sources
ReplayNext ==
    \/ Produce
    \/ ReplayStart
    \/ ReplayCreateConsumer
    \/ ReplayPublish
    \/ ReplayDeliver

ReplaySpec == Init /\ [][ReplayNext]_vars

\* the runner on a stream that can lose messages
RetentionNext ==
    \/ Produce
    \/ Purge
    \/ Receive
    \/ FetchNext
    \/ DispatchCall
    \/ JoinCalls

RetentionSpec == RuleInit /\ [][RetentionNext]_vars

\* the same with the context of Consume: a message the stream holds for the
\* ordered read of FetchMessageBundle is handed to Next() in the end
ReadNext ==
    \/ Produce
    \/ Purge
    \/ Receive
    \/ FetchNext
    \/ DispatchCall
    \/ JoinCalls
    \/ Cancel
    \/ ConsumeReturn

\* the runner preloaded with one of the rule bodies that repeat labels or names
SlugInit == \E b \in SlugBodies : InitWith(b)
SlugSpec == SlugInit /\ [][Next]_vars

\* callers of Client.Publish and the broker
PublishNext == PublishCall
PublishSpec == Init /\ [][PublishNext]_vars

\* the runner with producers of rule bodies
BundleHopsNext ==
    \/ Produce
    \/ ProduceHops
    \/ Receive
    \/ FetchNext
    \/ DispatchCall
    \/ JoinCalls

BundleHopsSpec == RuleInit /\ [][BundleHopsNext]_vars

FetchSpec == RuleInit /\ [][ReadNext]_vars
FetchFairSpec == FetchSpec /\ WF_<<rpc, fcursor>>(ReadMoves)

\* ---------------------------------------------------------------------
\* Properties of the sequence consumer and the runner
\* ---------------------------------------------------------------------

RECURSIVE TokensUpTo(_)
\* the tokens of the subjects of the stream's first n messages
TokensUpTo(n) ==
    IF n = 0 THEN <<>> ELSE Append(TokensUpTo(n - 1), Split(stream[n].subject, Dot))

\* the tokens of the subject of every message of the stream
StreamTokens == TokensUpTo(Len(stream))

\* with tk the stream's tokens: the i-th message is on a subject
\* {account}.notify.S.{id}
InSequence(tk, i, S) ==
    /\ Len(tk[i]) = 4
    /\ tk[i][1] = AccountId
    /\ tk[i][2] = ChannelNotify
    /\ tk[i][3] = S

\* the messages of the n-th message's sequence up to and including it
PriorOf(tk, n) == {i \in 1..n : InSequence(tk, i, tk[n][3])}

\* b holds exactly the history of the n-th message's sequence up to n
BundleIsPrefix(tk, b, n) ==
    LET prior == PriorOf(tk, n) IN
    /\ DOMAIN b = {tk[i][4] : i \in prior}
    /\ tk[n][4] \in DOMAIN b
    /\ \A i \in prior : b[tk[i][4]] = stream[i].data
    /\ \A i \in (n + 1)..Len(stream) :
          InSequence(tk, i, tk[n][3]) => tk[i][4] \notin DOMAIN b

\* every delivery the notify consumer has settled, as <<message, attempt>>
Deliveries == {p \in (1..Len(ncons)) \X (1..(MaxRedeliver + 1)) :
                  p[2] <= Len(ncons[p[1]].hist)}

DeliveryOf(p) == ncons[p[1]].hist[p[2]]

\* C1: the bundle FetchMessageBundle hands over for the message with stream
\* sequence N of sequence S has as keys exactly the message ids of the
\* messages on {account}.notify.S.* with stream sequence <= N, each with that
\* message's data; the message's own id is among them and no later message of
\* S is, whatever is appended to S while the bundle is read.
C1_BundleIsHistoryUpToMessage ==
    LET tk == StreamTokens IN
    /\ \A p \in Deliveries :
          DeliveryOf(p).invoked => BundleIsPrefix(tk, DeliveryOf(p).bundleArg, p[1])
    /\ rpc = "dispatch" => BundleIsPrefix(tk, cbBundle, cur)

\* the handler runs on a bundle that leaves out a later message of the same
\* sequence which is already on the stream
C1_Witness ==
    LET tk == StreamTokens IN
    /\ rpc = "dispatch"
    /\ DOMAIN cbBundle = {EventMsgId}
    /\ \E i \in (cur + 1)..Len(stream) : InSequence(tk, i, tk[cur][3])

\* C2: Publish returns (nil, false) when the broker rejects the message with
\* the per-subject limit error, (err, _) with the broker's error for any other
\* publish error, and (nil, true) when the broker accepts the message.
C2_PublishOutcome ==
    lastPub.called =>
        /\ HasFenceText(lastPub.broker) => lastPub.err = NoError /\ ~lastPub.sent
        /\ lastPub.broker = NoError => lastPub.err = NoError /\ lastPub.sent
        /\ lastPub.broker # NoError /\ ~HasFenceText(lastPub.broker) =>
              lastPub.err = lastPub.broker
        /\ lastPub.sent /\ lastPub.err = NoError =>
              stream[Len(stream)] = [subject |-> lastPub.subject, data |-> lastPub.data]

\* a Publish call the broker answered with the per-subject limit error
C2_Witness ==
    /\ lastPub.called
    /\ lastPub.broker = FenceError
    /\ lastPub.err = NoError
    /\ ~lastPub.sent

\* C3: publishing twice to one subject is idempotent: the call that finds the
\* subject empty returns (nil, true), every later call returns (nil, false)
\* whatever its payload, and the subject keeps the first payload only. (Calls
\* the broker fails for another reason are no part of the statement.)
C3_FenceIdempotent ==
    /\ \A i, j \in 1..Len(stream) : stream[i].subject = stream[j].subject => i = j
    /\ lastPub.called /\ lastPub.broker \notin BrokerErrors =>
          /\ lastPub.err = NoError
          /\ lastPub.sent <=> lastPub.held = {}
          /\ {stream[i].data : i \in OnSubject(stream, lastPub.subject)} =
                IF lastPub.held = {} THEN {lastPub.data} ELSE lastPub.held

\* a second publish to a subject, with another payload, that changed nothing
C3_Witness ==
    /\ lastPub.called
    /\ lastPub.held # {}
    /\ lastPub.data \notin lastPub.held
    /\ ~lastPub.sent
    /\ lastPub.err = NoError

\* C4: ConsumeSequences calls the handler with the message's sequence id and
\* its bundle; when the handler returns an error the message is nak'd with a
\* delay of 3 seconds, when it returns nil the message is ack'd, and a message
\* is ack'd in no other case.
C4_HandlerOutcomeSettles ==
    LET tk == StreamTokens IN
    /\ \A p \in Deliveries :
          LET d == DeliveryOf(p)
          IN  /\ d.invoked =>
                    /\ d.seqIdArg = tk[p[1]][3]
                    /\ tk[p[1]][4] \in DOMAIN d.bundleArg
                    /\ d.bundleArg[tk[p[1]][4]] = stream[p[1]].data
                    /\ d.failed => d.op = "nak" /\ d.delay = 3
                    /\ ~d.failed => d.op = "ack"
              /\ d.op = "ack" => d.invoked /\ ~d.failed
    /\ \A n \in 1..Len(ncons) :
          ncons[n].st \in {"ack", "nak"} =>
              ncons[n].st = ncons[n].hist[Len(ncons[n].hist)].op
    /\ rpc = "dispatch" =>
          /\ ncons[cur].st = "flight"
          /\ cbSeqId = tk[cur][3]

\* one message ack'd after its handler returned nil and one nak'd after its
\* handler returned an error
C4_Witness ==
    /\ \E p \in Deliveries : DeliveryOf(p).invoked /\ DeliveryOf(p).op = "ack"
    /\ \E p \in Deliveries :
          DeliveryOf(p).invoked /\ DeliveryOf(p).failed /\ DeliveryOf(p).op = "nak"

\* C5 as stated: when building the bundle fails the message is nak'd with a
\* delay of 3 seconds, the handler is not invoked for that delivery, and the
\* consume loop carries on with later messages.
C5_FetchFailureCarriesOn ==
    \A p \in Deliveries :
        DeliveryOf(p).fetched \in {"fail", "overrun"} =>
            /\ DeliveryOf(p).op = "nak"
            /\ DeliveryOf(p).delay = 3
            /\ ~DeliveryOf(p).invoked
            /\ rpc # "crashed"

\* C6: a notify message whose subject does not parse is terminated: the
\* callback calls Term and nothing else for it (no ack, no nak, no bundle, no
\* handler), and the message is never delivered a second time.
C6_UnparseableTerminated ==
    LET tk == StreamTokens IN
    \A n \in 1..Len(ncons) :
        Len(tk[n]) < 4 =>
            /\ ncons[n].st \in {"wait", "term"}
            /\ cur # n
            /\ Len(ncons[n].hist) <= 1
            /\ ncons[n].st = "term" <=> Len(ncons[n].hist) = 1
            /\ \A k \in 1..Len(ncons[n].hist) :
                  /\ ncons[n].hist[k].op = "term"
                  /\ ncons[n].hist[k].fetched = "none"
                  /\ ~ncons[n].hist[k].invoked

\* an unparseable message was terminated and the consumer has since settled a
\* later message
C6_Witness ==
    LET tk == StreamTokens IN
    \E n \in 1..Len(ncons) :
        /\ Len(tk[n]) < 4
        /\ ncons[n].st = "term"
        /\ \E m \in (n + 1)..Len(ncons) : Len(ncons[m].hist) > 0

RECURSIVE Flatten(_)
Flatten(seqs) == IF seqs = <<>> THEN <<>> ELSE Head(seqs) \o Flatten(Tail(seqs))

\* the rule set as it was decoded for the callback that ended last
LastHop ==
    ParseHops(hops, ncons[last.n].hist[Len(ncons[last.n].hist)].bundleArg)

\* the calls of the matched on blocks, as <<on, call>>
CallsOf(hop) ==
    UNION {{<<o, i>> : i \in 1..Len(hop.Ons[o].Calls)} : o \in 1..Len(hop.Ons)}

\* C7: SequenceCallback does not short-circuit: every call of every matched on
\* block is attempted once even when earlier ones failed; it returns nil
\* exactly when every dispatch succeeded and otherwise an aggregate holding
\* the error of each failed dispatch.
C7_NoShortCircuit ==
    last.n # 0 /\ ~LastHop.err =>
        LET failed == {a \in last.attempts : a.err # NoError}
            errs == Flatten(last.ret)
        IN  /\ {<<a.on, a.call>> : a \in last.attempts} = CallsOf(LastHop)
            /\ Cardinality(last.attempts) = Cardinality(CallsOf(LastHop))
            /\ last.ret = <<>> <=> failed = {}
            /\ Len(errs) = Cardinality(failed)
            /\ \A a \in failed : a.err \in Range(errs)
            /\ \A e \in Range(errs) : \E a \in failed : a.err = e

\* a callback in which the calls of two on blocks failed
C7_Witness ==
    /\ last.n # 0
    /\ Len(last.ret) = 2
    /\ \E a, b \in last.attempts : a.on # b.on /\ a.err # NoError /\ b.err # NoError

\* the call of hop an attempt was made for
CallOf(hop, a) == hop.Ons[a.on].Calls[a.call]

\* C8: a call whose task type holds no underscore fails on its own:
\* dispatchCalls' error for its on block holds the parse error, nothing is
\* published for the call, and the other calls of the on block are dispatched
\* all the same.
C8_MalformedTaskTypeFailsAlone ==
    last.n # 0 /\ ~LastHop.err =>
        LET tk == StreamTokens
            hop == LastHop
            seqId == ncons[last.n].hist[Len(ncons[last.n].hist)].seqIdArg
        IN  \A a \in last.attempts :
                ~Contains(CallOf(hop, a).TaskType, Underscore) =>
                    /\ ~a.published
                    /\ a.err = DispatchParseError
                    /\ \E g \in Range(last.ret) : DispatchParseError \in Range(g)
                    /\ \A b \in last.attempts :
                          b.on = a.on /\ Contains(CallOf(hop, b).TaskType, Underscore) =>
                              b.published
                    /\ \A i \in 1..Len(stream) :
                          ~(/\ Len(tk[i]) > 4
                            /\ tk[i][2] = ChannelRequest
                            /\ tk[i][3] = seqId
                            /\ tk[i][4] = CallOf(hop, a).Slug)

\* a callback with a malformed call that published nothing and a sibling call
\* whose request the broker accepted
C8_Witness ==
    /\ last.n # 0
    /\ \E a, b \in last.attempts :
          /\ a.on = b.on
          /\ ~a.published
          /\ a.err = DispatchParseError
          /\ b.published
          /\ b.broker = NoError
          /\ \E i \in 1..Len(stream) : stream[i].subject = b.subject

\* C9: dispatching is idempotent under redelivery: every run of the callback
\* for one sequence message publishes to the same request subjects, a publish
\* the per-subject limit rejects is no error, so the callback returns nil when
\* every call was newly dispatched or a duplicate, and no request subject
\* ever holds more than one message.
C9_DispatchIdempotent ==
    LET tk == StreamTokens IN
    /\ \A p, q \in Deliveries :
          p[1] = q[1] /\ DeliveryOf(p).invoked /\ DeliveryOf(q).invoked =>
              DeliveryOf(p).subjects = DeliveryOf(q).subjects
    /\ last.n # 0 =>
          /\ \A a \in last.attempts : a.broker = FenceError => a.err = NoError
          /\ (/\ ~LastHop.err
              /\ \A a \in last.attempts :
                    a.published /\ a.broker \in {NoError, FenceError}) =>
                last.ret = <<>>
    /\ \A i, j \in 1..Len(stream) :
          /\ stream[i].subject = stream[j].subject
          /\ tk[i][2] = ChannelRequest
          => i = j

\* a message nak'd after a partial failure whose redelivery found a duplicate,
\* dispatched the rest and was ack'd
C9_Witness ==
    /\ last.n # 0
    /\ last.ret = <<>>
    /\ Len(ncons[last.n].hist) = 2
    /\ ncons[last.n].hist[1].invoked
    /\ ncons[last.n].hist[1].failed
    /\ ncons[last.n].hist[2].op = "ack"
    /\ ncons[last.n].hist[2].subjects # {}
    /\ \E a \in last.attempts : a.broker = FenceError
    /\ \E a \in last.attempts : a.broker = NoError

\* ---------------------------------------------------------------------
\* Properties of the worker
\* ---------------------------------------------------------------------

\* the worker callback that ended last published the FAILURE result with
\* error e, once, to its request's response subject, both timestamps set, and
\* then double-acked if Publish returned no error and nak'd if it returned one
FailureReplied(e) ==
    /\ wlast.pubs = 1
    /\ lastPub.called
    /\ lastPub.subject = ResponseSubject(Parse(stream[wlast.n].subject, wlast.n))
    /\ wlast.result.StartedAt > 0
    /\ wlast.result.FinishedAt > 0
    /\ lastPub.data = MarshalResult([StartedAt |-> wlast.result.StartedAt,
                                     FinishedAt |-> wlast.result.FinishedAt,
                                     Status |-> "FAILURE", Error |-> e])
    /\ lastPub.err = NoError => wlast.op = "DoubleAck"
    /\ lastPub.err # NoError => wlast.op = "Nak"

\* C10 as stated: when the handler returns an error the worker publishes
\* exactly one ResultMsg with status FAILURE, the handler's error and both
\* timestamps to the response subject, then acks if the publish succeeded and
\* naks if it failed.
C10_FailureResultCarriesHandlerError ==
    wlast.n # 0 /\ wlast.handlerErr \in HandlerErrors =>
        FailureReplied(wlast.handlerErr)

\* C10, amended: when the handler returns an error the worker publishes
\* exactly one FAILURE ResultMsg with both timestamps to the response subject,
\* carrying the error runHandler returned: the handler's error when the select
\* received it, the in-progress extension's error when a ticked extension
\* failed first; it then acks if the publish returned no error and naks if it
\* returned one.
C10_FailureResultCarriesSupervisorError ==
    wlast.n # 0 /\ wlast.handlerErr \in HandlerErrors =>
        /\ FailureReplied(wlast.ret)
        /\ wlast.hret = "received" => wlast.ret = wlast.handlerErr
        /\ wlast.hret = "blocked" => wlast.ret = InProgressError

\* the handler returned an error, a ticked extension failed before the select
\* received it, and the FAILURE result the broker accepted carries the
\* extension's error
C10_Witness ==
    /\ wlast.n # 0
    /\ wlast.handlerErr \in HandlerErrors
    /\ wlast.hret = "blocked"
    /\ lastPub.called
    /\ lastPub.sent
    /\ wlast.result.Error = InProgressError
    /\ wlast.op = "DoubleAck"

\* the worker callback that ended last went through runHandler and the
\* handler had returned nil by then
HandlerReturnedNil ==
    /\ wlast.n # 0
    /\ wlast.hret \in {"received", "blocked"}
    /\ wlast.handlerErr = NoError

\* C11 as stated: when the handler returns without error the worker publishes
\* no result for the request and double-acks it once.
C11_NoResultWhenHandlerSucceeds ==
    HandlerReturnedNil =>
        /\ wlast.pubs = 0
        /\ ~lastPub.called
        /\ wlast.op = "DoubleAck"

\* C11, amended: when runHandler returns nil the worker publishes nothing and
\* calls DoubleAck once for the delivery, and nil is returned only after the
\* handler's own nil was received; the worker publishes the FAILURE result,
\* once, exactly when runHandler returns an error, which is the handler's
\* error or the error of a ticked in-progress signal.
C11_NoResultWhenSupervisorSucceeds ==
    wlast.n # 0 /\ wlast.hret # "none" =>
        /\ wlast.ret = NoError =>
              /\ wlast.pubs = 0
              /\ ~lastPub.called
              /\ wlast.op = "DoubleAck"
              /\ wlast.hret = "received"
              /\ wlast.handlerErr = NoError
              /\ wcons[wlast.n].hist[Len(wcons[wlast.n].hist)] = "DoubleAck"
              /\ wcons[wlast.n].st = IF wlast.ackErr = NoError THEN "ack" ELSE "pending"
        /\ wlast.ret # NoError =>
              /\ wlast.pubs = 1
              /\ lastPub.called
              /\ lastPub.subject =
                    ResponseSubject(Parse(stream[wlast.n].subject, wlast.n))
              /\ wlast.ret \in {wlast.handlerErr, InProgressError}
        /\ wlast.op = "DoubleAck" <=> (wlast.ret = NoError \/ lastPub.err = NoError)

\* a handler returned nil, runHandler received it and the broker confirmed the
\* ack, with nothing published
C11_Witness ==
    /\ HandlerReturnedNil
    /\ wlast.hret = "received"
    /\ wlast.ret = NoError
    /\ wlast.pubs = 0
    /\ wlast.op = "DoubleAck"
    /\ wlast.ackErr = NoError
    /\ wcons[wlast.n].st = "ack"

\* while runHandler supervises a request, the next tick comes no later than
\* two thirds of the ack-wait after the latest in-progress signal, and the
\* ack-wait has not run out
ExtensionsInTime ==
    wpc = "select" =>
        /\ now < ackDeadline
        /\ ~tickReady => tickAt - (ackDeadline - AckWait) <= (2 * AckWait) \div 3
        /\ ~tickReady => tickAt - (ackDeadline - AckWait) = AckWait - (AckWait \div 3)

\* C12 as stated: with ack-wait W the worker signals in-progress at the start
\* and then every W - W/3, so that extensions are never more than two thirds
\* of W apart and the broker never delivers the request again while its
\* handler is still running.
C12_NoRedeliveryWhileHandlerRuns ==
    /\ ExtensionsInTime
    /\ \A n \in orphans : wcur # n

\* C13 as stated: Consume blocks until the context is cancelled, then stops
\* the consumer and returns nil; it returns only after a callback that was in
\* flight at the cancellation has completed, and no callback starts after it
\* has returned.
C13_ConsumeReturnsAfterCallback ==
    cstate = "returned" => wpc = "idle" /\ wcur = 0

\* ---------------------------------------------------------------------
\* Properties of the replay client
\* ---------------------------------------------------------------------

\* the stream's messages on {account}.notify.{id}.event
OnReplaySubject(id) ==
    OnSubject(stream, Join(<<AccountId, ChannelNotify, id, EventMsgId>>, Dot))

\* the client c has a replay- id, and the stream holds one message on its
\* event subject: the source event's payload, stored after the consumer was
\* created, and the only message the consumer delivers
ReplaySeeded(c) ==
    /\ c.id # c.orig
    /\ c.id[1] = "replay" /\ c.id[2] = Dash
    /\ Cardinality(OnReplaySubject(c.id)) = 1
    /\ \A i \in OnReplaySubject(c.id) : stream[i].data = c.source /\ i > c.created
    /\ \A d \in 1..Len(c.delivered) : c.delivered[d] \in OnReplaySubject(c.id)
    /\ Len(c.delivered) <= 1

\* the clients whose re-publication the broker accepted are seeded
ReplaySeededWhenPublished ==
    \A k \in 1..Len(replay.clients) :
        replay.clients[k].broker = NoError => ReplaySeeded(replay.clients[k])

\* C14 as stated: every client NewReplayClient has returned has a fresh
\* replay- id other than the original sequence id, its consumer was created
\* before the re-publication, the stream holds exactly one message on
\* {account}.notify.{replay_id}.event, with the source event's payload, and the
\* consumer delivers that message and no other.
C14_ReplaySeedsOneEvent ==
    \A k \in 1..Len(replay.clients) :
        /\ ReplaySeeded(replay.clients[k])
        /\ \A j \in 1..Len(replay.clients) :
              j # k => replay.clients[j].id # replay.clients[k].id

\* ---------------------------------------------------------------------
\* Properties of publish and consume together
\* ---------------------------------------------------------------------

\* the producers' messages published with the tokens (sequence id, message id)
TokenMessages == {m \in ProducerMessages : Len(m.toks) = 3}

\* where the stream holds m, published through Publish
StoredAt(m) ==
    {i \in 1..Len(stream) :
        stream[i] = [subject |-> PublishSubject(m.toks), data |-> m.data]}

\* the callback was handed m: a subject that ends in {sequence_id}.{message_id}
\* on the notify channel of the account, and the published payload
Received(m) ==
    \E r \in 1..Len(received) :
        /\ received[r].subject =
              Join(<<AccountId, ChannelNotify, m.toks[2], m.toks[3]>>, Dot)
        /\ received[r].data = m.data

\* C15 as stated: every message Publish has stored on the notify channel with
\* tokens (sequence id, message id) is eventually delivered to the callback
\* registered with Consume, with that subject and payload.
C15_PublishedIsDelivered ==
    \A m \in TokenMessages : (StoredAt(m) # {}) ~> Received(m)

\* C15, amended: every such message is eventually delivered to the callback,
\* with a subject ending in {sequence_id}.{message_id} and the published
\* payload, unless the context is cancelled first; what the callback is handed
\* is what the stream holds, in stream-sequence order.
C15_PublishedIsDeliveredWhileConsuming ==
    /\ \A m \in TokenMessages :
          (StoredAt(m) # {}) ~> (Received(m) \/ cstate # "consuming")
    /\ [](\A r \in 1..Len(received) :
            /\ stream[received[r].seq] =
                  [subject |-> received[r].subject, data |-> received[r].data]
            /\ \A q \in 1..(r - 1) : received[q].seq < received[r].seq)

\* two messages of one sequence were published and the callback was handed
\* both, in the order of the stream
C15_Witness ==
    /\ Len(received) >= 2
    /\ \E m \in TokenMessages : m.toks[3] # EventMsgId /\ Received(m)
    /\ cstate = "consuming"

\* ---------------------------------------------------------------------
\* Properties of the rule evaluation
\* ---------------------------------------------------------------------

\* the bundle the callback that ended last was called with
LastBundle == ncons[last.n].hist[Len(ncons[last.n].hist)].bundleArg

\* the callback that ended last ran for a sequence whose source event is a push
LastWasPush ==
    /\ last.n # 0
    /\ ncons[last.n].hist[Len(ncons[last.n].hist)].invoked
    /\ EventMsgId \in DOMAIN LastBundle
    /\ LastBundle[EventMsgId] = <<"push">>

\* With the happy path's rule loaded, the callback for a push called Publish
\* once, for acct.request.SEQ.{slug}.github.tag, where no message other than
\* {ref: v1} is stored, and one is stored once the broker has answered without
\* another error.
HappyPath(slug) ==
    LastWasPush =>
        LET tk == StreamTokens
            subject == Join(<<AccountId, ChannelRequest, tk[last.n][3], slug,
                              <<"github">>, <<"tag">>>>, Dot)
        IN  /\ Cardinality(last.attempts) = 1
            /\ \A a \in last.attempts :
                  /\ a.published
                  /\ a.subject = subject
                  /\ a.broker \in {NoError, FenceError} =>
                        Cardinality(OnSubject(stream, subject)) = 1
            /\ \A i \in OnSubject(stream, subject) : stream[i].data = <<"ref", "v1">>

\* C16 as stated: with the rule on push { call github_tag { inputs = {ref: "v1"} } }
\* loaded and a push source event on acct.notify.SEQ.event, SequenceCallback
\* publishes exactly one request, to acct.request.SEQ.push0-github_tag.github.tag
\* with payload {ref: v1}.
C16_HappyPathSlugWithoutIndex ==
    HappyPath(<<"push", "0", Dash, "github", Underscore, "tag">>)

\* C16, amended: the request goes to acct.request.SEQ.push0-github_tag0.github.tag,
\* the slug of an unnamed call being the on block's slug, "-", the task type
\* and the call's index in its block.
C16_HappyPathSlugWithIndex ==
    HappyPath(<<"push", "0", Dash, "github", Underscore, "tag", "0">>)

\* a callback for a push whose one request the broker accepted
C16_Witness ==
    /\ hops = HappyPathBody
    /\ LastWasPush
    /\ last.ret = <<>>
    /\ \E a \in last.attempts : a.published /\ a.broker = NoError

\* C17: FetchMessageBundle returns an error and no bundle as soon as the
\* ordered read of the sequence delivers a message with a stream sequence above
\* the triggering message's: the read never goes on past the triggering
\* message, the handler is not called for that delivery, a delivery whose
\* handler was called has the triggering message in its bundle, and the read
\* overruns only when the triggering message is no longer retained.
C17_OverrunFailsTheRead ==
    LET tk == StreamTokens IN
    /\ rpc = "fetching" => fcursor < cur
    /\ \A p \in Deliveries :
          LET d == DeliveryOf(p)
          IN  /\ d.fetched = "overrun" =>
                    /\ ~d.invoked
                    /\ d.bundleArg = EmptyMap
                    /\ d.op = "nak"
                    /\ p[1] \in purged
              /\ d.invoked => tk[p[1]][4] \in DOMAIN d.bundleArg

\* a read that ran past its triggering message, which the stream had lost,
\* onto a later message of the same sequence
C17_Witness ==
    LET tk == StreamTokens IN
    \E p \in Deliveries :
        /\ DeliveryOf(p).fetched = "overrun"
        /\ p[1] \in purged
        /\ \E i \in (p[1] + 1)..Len(stream) : InSequence(tk, i, tk[p[1]][3])

\* C18 as stated: every call of FetchMessageBundle returns in the end, with a
\* bundle or an error.
C18_FetchReturns == (rpc = "fetching") ~> (rpc # "fetching")

\* the on blocks SequenceCallback is dispatching are those of rule body b
\* evaluated on the bundle it was given
Evaluated(b) == rpc = "dispatch" => ons = ParseHops(b, cbBundle).Ons

\* C19 as stated: the rule body SequenceCallback evaluates is the bundle's
\* "hops" entry when the bundle has one, and the runner's preloaded body only
\* when it has none.
C19_BodyFromBundleWhenPresent == Evaluated(SequenceHopsFromBundle(cbBundle))

\* C19, amended: the rule body SequenceCallback evaluates is the runner's
\* preloaded body, whether or not the bundle has a "hops" entry.
C19_BodyAlwaysPreloaded == Evaluated(hops)

\* SequenceCallback dispatches the preloaded rule on a bundle whose "hops"
\* entry holds another rule
C19_Witness ==
    /\ rpc = "dispatch"
    /\ HopsMsgId \in DOMAIN cbBundle
    /\ ReadBody(cbBundle[HopsMsgId]) # hops
    /\ ons # ParseHops(ReadBody(cbBundle[HopsMsgId]), cbBundle).Ons

\* the part of a task type before its first "_" and the part after it
TaskApp(t) == SubSeq(t, 1, FirstIndex(t, Underscore) - 1)
TaskHandler(t) == SubSeq(t, FirstIndex(t, Underscore) + 1, Len(t))

\* the call of the callback under way that an attempt is about
AttemptedCall(a) == ons[a.on].Calls[a.call]

\* C20: for every call whose task type holds a "_", dispatchCall calls Publish
\* exactly once, with the call's inputs, on
\* {account}.request.{sequence_id}.{call_slug}.{app}.{handler}: app is the task
\* type up to its first "_", handler all that follows it, "_" included.
C20_RequestSubject ==
    rpc = "dispatch" =>
        /\ \A a \in attempted :
              Contains(AttemptedCall(a).TaskType, Underscore) =>
                  /\ a.published
                  /\ a.subject = Join(<<AccountId, ChannelRequest, cbSeqId,
                                        AttemptedCall(a).Slug, TaskApp(AttemptedCall(a).TaskType),
                                        TaskHandler(AttemptedCall(a).TaskType)>>, Dot)
        /\ \A o \in 1..onIdx :
              \A i \in 1..Len(ons[o].Calls) :
                 Cardinality({a \in attempted : a.on = o /\ a.call = i}) =
                     IF o < onIdx \/ tasks[i] = "done" THEN 1 ELSE 0
        /\ lastPub.called =>
              \A a \in attempted :
                 a.published /\ a.subject = lastPub.subject =>
                     lastPub.data = AttemptedCall(a).Inputs

\* the broker accepted the request of a call whose handler name holds a "_"
C20_Witness ==
    /\ rpc = "dispatch"
    /\ \E a \in attempted :
          /\ a.published
          /\ a.broker = NoError
          /\ Contains(TaskHandler(AttemptedCall(a).TaskType), Underscore)
          /\ lastPub.called
          /\ lastPub.subject = a.subject

\* the text of the tokens with a "." between them, the account's first
RECURSIVE Dotted(_)
Dotted(toks) == IF Len(toks) = 0 THEN <<>> ELSE <<Dot>> \o toks[1] \o Dotted(Tail(toks))

\* C21: Publish publishes to the account id followed by the tokens it is
\* given, joined with ".", unless it is given exactly one argument that holds a
\* ".": then it publishes to that argument as it is. An accepted message is
\* stored under that very subject.
C21_PublishSubjectRule ==
    lastPub.called =>
        /\ lastPub.subject =
              IF Len(lastPub.toks) = 1 /\ Dot \in Range(lastPub.toks[1])
              THEN lastPub.toks[1]
              ELSE AccountId \o Dotted(lastPub.toks)
        /\ lastPub.broker = NoError =>
              stream[Len(stream)] = [subject |-> lastPub.subject, data |-> lastPub.data]

\* the broker stored a message published with one pre-dotted argument that
\* does not start with the account, next to one published with tokens
C21_Witness ==
    /\ lastPub.called
    /\ lastPub.broker = NoError
    /\ Len(lastPub.toks) = 1
    /\ lastPub.subject = lastPub.toks[1]
    /\ lastPub.subject[1] # AccountId[1]
    /\ \E i \in 1..Len(stream) :
          stream[i].subject = <<"acct", Dot, "notify", Dot, "s1", Dot, "event">>

\* C22 as stated: a worker callback in which publishing the FAILURE result
\* failed, or in which the double-ack failed, has nak'd the request.
C22_SettleFailureNaks ==
    wlast.n # 0 =>
        /\ (wlast.pubs = 1 /\ lastPub.err # NoError) => wlast.op = "Nak"
        /\ wlast.ackErr # NoError =>
              /\ wlast.op = "Nak"
              /\ wcons[wlast.n].st = "nak"

\* the worker callback that ended last went through runHandler
RanHandler == wlast.n # 0 /\ wlast.hret # "none"

\* an in-progress signal of that callback failed: the immediate one or a
\* ticked one, after which runHandler did not wait for the handler
ExtensionFailed ==
    wlast.firstErr # NoError \/ wlast.hret \in {"running", "blocked"}

\* C23 as stated: runHandler returns nil exactly when the handler returned nil
\* and no extension failed, the handler's error when the handler fails, and the
\* extension's error whenever an in-progress signal fails, the immediate one
\* included.
C23_SupervisorOutcome ==
    RanHandler =>
        /\ wlast.ret = NoError <=>
              (wlast.hret = "received" /\ wlast.handlerErr = NoError /\ ~ExtensionFailed)
        /\ ExtensionFailed => wlast.ret = InProgressError
        /\ ~ExtensionFailed /\ wlast.handlerErr # NoError => wlast.ret = wlast.handlerErr

\* the requests on the stream whose handler the worker does not register
UnknownRequests ==
    {n \in 1..Len(stream) :
        LET m == Parse(stream[n].subject, n) IN
        /\ m.ok
        /\ m.Channel = ChannelRequest
        /\ m.HandlerName \notin Handlers}

\* C24: a request for a handler the worker does not register is terminated:
\* the consumer's record of it holds at most the one Term, it is never in
\* runHandler, it is not handed out again, and no result is on its response
\* subject.
C24_UnknownHandlerTerminated ==
    \A n \in UnknownRequests :
        /\ n <= Len(wcons) =>
              /\ wcons[n].hist \in {<<>>, <<"Term">>}
              /\ wcons[n].st \in {"wait", "term"}
              /\ wcons[n].st = "term" <=> wcons[n].hist = <<"Term">>
              /\ wcons[n].st = "term" => n \notin WDeliverable
        /\ wcur # n
        /\ n \notin orphans
        /\ wlast.n = n => wlast.op = "Term" /\ wlast.pubs = 0 /\ wlast.hret = "none"
                          /\ ~lastPub.called
        /\ OnSubject(stream, ResponseSubject(Parse(stream[n].subject, n))) = {}

\* a request for an unknown handler was terminated, and the consumer, which
\* could still deliver again, has gone on to another request
C24_Witness ==
    \E n \in UnknownRequests :
        /\ n <= Len(wcons)
        /\ wcons[n].st = "term"
        /\ WRedelivered < MaxWRedeliver
        /\ \E k \in (n + 1)..Len(wcons) : wcons[k].hist # <<>>

\* the blocks of the callback under way: <<o, 0>> is on block o, <<o, i>> its
\* call i
DispatchedBlocks ==
    {<<o, 0>> : o \in 1..Len(ons)} \cup
    UNION {{<<o, i>> : i \in 1..Len(ons[o].Calls)} : o \in 1..Len(ons)}

BlockSlug(x) == IF x[2] = 0 THEN ons[x[1]].Slug ELSE ons[x[1]].Calls[x[2]].Slug

\* the event types for which decoding the rule body comes to a block whose
\* slug is registered already
DuplicateFor(body) ==
    IF body = DupOnBody THEN {<<"push">>, <<"pr">>}
    ELSE IF body \in {DupCallBody, DupFilteredCallBody} THEN {<<"push">>}
    ELSE {}

\* the source event's type in a bundle (<<>>: the bundle has no source event)
BundleEvent(b) == IF EventMsgId \in DOMAIN b THEN b[EventMsgId] ELSE <<>>

\* C25: ParseHops does not succeed with two blocks of one slug. A rule body in
\* which a block's slug is registered already when the block is decoded makes
\* SequenceCallback return the parse error without any call, also when the
\* earlier block is for another event; and the blocks SequenceCallback
\* dispatches have pairwise distinct slugs, their calls pairwise distinct
\* request subjects.
C25_SlugsAreUnique ==
    /\ rpc = "dispatch" =>
          /\ BundleEvent(cbBundle) \notin DuplicateFor(hops)
          /\ \A x, y \in DispatchedBlocks : x # y => BlockSlug(x) # BlockSlug(y)
          /\ \A a, b \in attempted :
                a # b => /\ <<a.on, a.call>> # <<b.on, b.call>>
                         /\ a.slug # b.slug
                         /\ a.published /\ b.published => a.subject # b.subject
    /\ (last.n # 0 /\ BundleEvent(LastBundle) \in DuplicateFor(hops)) =>
          /\ last.ret = <<<<HopsError>>>>
          /\ last.attempts = {}

\* SequenceCallback returned the parse error for a push event with a rule
\* whose second on block repeats the slug of the first, which is for pr events
C25_Witness ==
    /\ hops = DupOnBody
    /\ last.n # 0
    /\ BundleEvent(LastBundle) = <<"push">>
    /\ last.ret = <<<<HopsError>>>>

\* C26 as stated: Publish returns sent = true only when the broker accepted
\* and stored the message, and sent = false whenever it returns an error.
C26_SentOnlyWhenStored ==
    lastPub.called =>
        /\ lastPub.sent =>
              /\ lastPub.broker = NoError
              /\ stream[Len(stream)] = [subject |-> lastPub.subject, data |-> lastPub.data]
        /\ lastPub.err # NoError => ~lastPub.sent

\* C27 as stated: the worker settles a request only after the handler called
\* for that delivery has returned: no handler is still running for a request
\* whose delivery the worker has settled.
C27_SettledAfterHandlerReturned ==
    /\ wlast.n # 0 => wlast.hret # "running"
    /\ \A n \in orphans : n <= Len(wcons) /\ wcons[n].st = "flight" /\ wcur = n

\* C28 as stated: the goroutine runHandler starts ends once the handler
\* returns: when runHandler returns, no goroutine whose handler has returned is
\* left waiting to send on doneChan or errChan.
C28_HandlerGoroutineEnds ==
    wlast.n # 0 => wlast.hret # "blocked"

\* the dispatchCall goroutines of the on block being dispatched that are done
DoneTasks == {i \in DOMAIN tasks : tasks[i] = "done"}

\* what the finished dispatchCall goroutines of on block o noted
AttemptsOf(o) == {a \in attempted : a.on = o}

\* while dispatchCalls runs: one goroutine per call, one value on errorchan per
\* finished goroutine, room on errorchan for every goroutine still to send,
\* and the on blocks already returned had every goroutine finished and every
\* error joined
DispatchCallsRunning ==
    rpc = "dispatch" =>
        LET n == Len(ons[onIdx].Calls) IN
        /\ DOMAIN tasks = 1..n
        /\ \A i \in DOMAIN tasks : tasks[i] \in {"go", "done"}
        /\ Len(errorchan) = Cardinality(DoneTasks)
        /\ Cardinality(AttemptsOf(onIdx)) = Cardinality(DoneTasks)
        /\ {a.call : a \in AttemptsOf(onIdx)} = DoneTasks
        /\ \A a \in AttemptsOf(onIdx) : a.err \in Range(errorchan)
        /\ \A k \in DOMAIN errorchan : \E a \in AttemptsOf(onIdx) : a.err = errorchan[k]
        /\ DoneTasks # DOMAIN tasks => Len(errorchan) < n
        /\ \A o \in 1..(onIdx - 1) :
              /\ {a.call : a \in AttemptsOf(o)} = 1..Len(ons[o].Calls)
              /\ \A a \in AttemptsOf(o) :
                    a.err # NoError => a.err \in Range(Flatten(sensorErrors))

\* after a callback that dispatched calls: the aggregate holds the error of
\* every failed goroutine
DispatchCallsResult ==
    last.n # 0 /\ last.attempts # {} =>
        LET failed == {a \in last.attempts : a.err # NoError} IN
        /\ \A a \in failed : a.err \in Range(Flatten(last.ret))
        /\ Len(Flatten(last.ret)) = Cardinality(failed)

\* a step in which dispatchCalls returns: every goroutine has finished and
\* errorchan holds one value of each
DispatchCallsReturns ==
    rpc = "dispatch" /\ (rpc' # "dispatch" \/ onIdx' # onIdx) =>
        /\ DoneTasks = 1..Len(ons[onIdx].Calls)
        /\ Len(errorchan) = Len(ons[onIdx].Calls)

\* C29: for an on block with n calls dispatchCalls starts n goroutines, each
\* sends exactly one value on errorchan (capacity n) and is never blocked on
\* that send, dispatchCalls returns only after all n have finished, in every
\* interleaving either a goroutine can run or dispatchCalls can return, and
\* the result holds the error of every failed goroutine.
C29_DispatchCallsJoins ==
    /\ [](DispatchCallsRunning /\ DispatchCallsResult)
    /\ [][DispatchCallsReturns]_vars

\* a callback ended in which both goroutines of an on block with two calls
\* failed, and its result holds the two errors
C29_Witness ==
    /\ last.n # 0
    /\ \E a, b \in last.attempts : a.on = b.on /\ a.call # b.call
                                    /\ a.err # NoError /\ b.err # NoError
    /\ Len(Flatten(last.ret)) = 2

====
